---- MODULE Spec2Model ----
(***************************************************************************)
(* Model of the generation / edit pipeline of demo-generator              *)
(* (src/generate.ts) over its SQLite storage layer (src/db.ts).           *)
(*                                                                         *)
(* Text (markup, names, identifiers, JSON) is a sequence of one-character  *)
(* strings.  The database is a record of its tables; every storage         *)
(* function of db.ts is an operator from a database to a result            *)
(*   [db, threw, msg]                                                      *)
(* and every synchronous stretch of generate.ts is an operator from a      *)
(* database to a result [db, tr, threw, msg], tr being the trace of the    *)
(* storage calls made.  An action is one stretch of code between two       *)
(* suspension points (await) of one pipeline run.                          *)
(*                                                                         *)
(* Spec is the pipeline serving requests.  The pure functions have their   *)
(* own specifications over raw (the input) and out (the result):           *)
(* SpecRepair for repairTruncatedJson, SpecParse for extractJson and       *)
(* parseResponse on the text of a response, SpecSeed for insertSeedData.   *)
(* SpecEndpoint is one request to an edit endpoint, the progress consumer  *)
(* of which may fail; SpecLive is such a request with every await          *)
(* resumed; SpecConcurrent is two edits of one application interleaved;    *)
(* SpecCrash is the reconciliation of new columns, interrupted and run     *)
(* again.  SpecSlowConsumer is the request of SpecLive with the answers of *)
(* the generative service guaranteed and the consumer's left open;         *)
(* SpecCrud is the row API of src/crud.ts on one table.                    *)
(***************************************************************************)
EXTENDS Integers, Sequences, FiniteSets, TLC

VARIABLES db, run, nreq, usedIds, raw, out

vars == <<db, run, nreq, usedIds, raw, out>>

(***************************************************************************)
(* Bounds                                                                  *)
(***************************************************************************)
MaxRequests == 2       \* requests served in one behaviour
MaxStreamEvents == 1   \* token-progress callbacks per streamed response

Runs == {1, 2}

(***************************************************************************)
(* Text helpers: JavaScript String methods                                 *)
(***************************************************************************)
Drop(s, n) == SubSeq(s, n + 1, Len(s))

Take(s, n) == SubSeq(s, 1, n)

startsWithAt(s, pat, i) ==
    /\ i + Len(pat) - 1 <= Len(s)
    /\ SubSeq(s, i, i + Len(pat) - 1) = pat

\* String.prototype.indexOf, 1-based; 0 when absent (-1 in JavaScript).
indexOf(s, pat) ==
    IF \E i \in 1..(Len(s) + 1) : startsWithAt(s, pat, i)
    THEN CHOOSE i \in 1..(Len(s) + 1) :
            /\ startsWithAt(s, pat, i)
            /\ \A j \in 1..(i - 1) : ~startsWithAt(s, pat, j)
    ELSE 0

includes(s, pat) == indexOf(s, pat) # 0

\* GetSubstitution of ECMA-262 for a string pattern (no captures):
\* $$ is a dollar sign, $& the match, $` the text before the match,
\* $' the text after it; any other character stands for itself.
RECURSIVE GetSubstitution(_, _, _, _)
GetSubstitution(matched, before, after, repl) ==
    IF repl = <<>> THEN <<>>
    ELSE IF repl[1] = "$" /\ Len(repl) >= 2 /\ repl[2] \in {"$", "&", "`", "'"}
    THEN (CASE repl[2] = "$" -> <<"$">>
            [] repl[2] = "&" -> matched
            [] repl[2] = "`" -> before
            [] repl[2] = "'" -> after)
         \o GetSubstitution(matched, before, after, Drop(repl, 2))
    ELSE <<repl[1]>> \o GetSubstitution(matched, before, after, Tail(repl))

\* String.prototype.replace(searchString, replaceString): first match only.
replace(s, search, repl) ==
    LET pos == indexOf(s, search) IN
    IF pos = 0 THEN s
    ELSE LET before == Take(s, pos - 1)
             after == Drop(s, pos - 1 + Len(search))
         IN before \o GetSubstitution(search, before, after, repl) \o after

\* String.prototype.replace(/pattern/g, id) for a literal pattern: every
\* non-overlapping match, left to right.  The identifier holds no dollar
\* sign, so its substitution is the identifier itself.
RECURSIVE replaceAll(_, _, _)
replaceAll(s, pat, repl) ==
    IF Len(s) < Len(pat) \/ pat = <<>> THEN s
    ELSE IF Take(s, Len(pat)) = pat
    THEN repl \o replaceAll(Drop(s, Len(pat)), pat, repl)
    ELSE <<s[1]>> \o replaceAll(Tail(s), pat, repl)

\* The placeholder {{APP_ID}}, shortened to its two delimiters; like the
\* original it has no border, so two occurrences never overlap.
APP_ID_PLACEHOLDER == <<"{", "}">>

\* A substitution that replaces the first placeholder only.
substituteFirstAppId(html, appId) == replace(html, APP_ID_PLACEHOLDER, appId)

substituteAppId(html, appId) == replaceAll(html, APP_ID_PLACEHOLDER, appId)

(***************************************************************************)
(* Storage layer (src/db.ts)                                               *)
(***************************************************************************)
\* A partial map with key k set to v.
Put(f, k, v) == [x \in DOMAIN f \cup {k} |-> IF x = k THEN v ELSE f[x]]

\* A partial map without the keys of S.
Without(f, S) == [x \in DOMAIN f \ S |-> f[x]]

Ok(d) == [db |-> d, threw |-> FALSE, msg |-> ""]

Threw(d, m) == [db |-> d, threw |-> TRUE, msg |-> m]

\* A JSON null where a column definition, a row or a patch is expected.
nullCol == [name |-> <<>>, type |-> "null"]

isNull(v) == v.type = "null"

\* The identity column every storage table gets.
idColumn == [name |-> <<"i", "d">>, type |-> "INTEGER"]

\* sqlType: the SQLite type of a declared type; a definition without a
\* type has no toUpperCase and raises a TypeError.
sqlTypeThrows(colType) == colType = "undefined"

sqlType(colType) ==
    CASE colType \in {"TEXT", "text"} -> "TEXT"
      [] colType \in {"INTEGER", "integer"} -> "INTEGER"
      [] colType \in {"REAL", "real"} -> "REAL"
      [] colType \in {"BOOLEAN", "boolean"} -> "INTEGER"
      [] OTHER -> "TEXT"

\* fullTableName: app_<identifier without dashes>_<table name>.
fullTableName(appId, tableName) ==
    <<"a", "p", "p", "_">> \o SelectSeq(appId, LAMBDA ch : ch # "-")
        \o <<"_">> \o tableName

getFullTableName(appId, tableName) == fullTableName(appId, tableName)

columnNames(cols) == {cols[i].name : i \in DOMAIN cols}

hasDuplicateNames(cols) ==
    \E i, j \in DOMAIN cols : i # j /\ cols[i].name = cols[j].name

\* CREATE TABLE IF NOT EXISTS "ftn" (id ..., <columns>): an empty column
\* list leaves a dangling comma, a syntax error whether or not the table
\* exists; for a table that does not exist yet a repeated column name (the
\* identity column included) is an error too.
createTableFails(d, ftn, cols) ==
    \/ cols = <<>>
    \/ /\ ftn \notin DOMAIN d.tables
       /\ hasDuplicateNames(<<idColumn>> \o cols)

storedColumn(col) == [name |-> col.name, type |-> sqlType(col.type)]

RECURSIVE createAppTables(_, _, _)
createAppTables(d, appId, tables) ==
    IF tables = <<>> THEN Ok(d)
    ELSE
      LET table == Head(tables)
          ftn == fullTableName(appId, table.name)
          cols == table.columns
      IN
      IF \E i \in DOMAIN cols : isNull(cols[i]) \/ sqlTypeThrows(cols[i].type)
      THEN Threw(d, "TypeError")
      ELSE IF createTableFails(d, ftn, cols)
      THEN Threw(d, "SqliteError")
      ELSE
        LET created ==
              IF ftn \in DOMAIN d.tables THEN d
              ELSE [d EXCEPT
                      !.tables = Put(@, ftn,
                          <<idColumn>> \o [i \in DOMAIN cols |-> storedColumn(cols[i])]),
                      !.rows = Put(@, ftn, <<>>)]
            \* INSERT OR REPLACE INTO app_schemas
            saved == [created EXCEPT
                        !.app_schemas = Put(@, <<appId, table.name>>, cols)]
        IN createAppTables(saved, appId, Tail(tables))

\* getAppSchema: the recorded columns, or <<>> standing for null.
hasAppSchema(d, appId, tableName) == <<appId, tableName>> \in DOMAIN d.app_schemas

getAppSchema(d, appId, tableName) ==
    IF hasAppSchema(d, appId, tableName)
    THEN d.app_schemas[<<appId, tableName>>] ELSE <<>>

getAllAppSchemas(d, appId) ==
    {k \in DOMAIN d.app_schemas : k[1] = appId}

\* ALTER TABLE "ftn" ADD COLUMN: fails when the table does not exist or
\* already has a column of that name; sqlType is evaluated inside the try.
alterTableFails(d, ftn, col) ==
    \/ sqlTypeThrows(col.type)
    \/ ftn \notin DOMAIN d.tables
    \/ col.name \in columnNames(d.tables[ftn])

\* addColumnToTable whose catch does not return: the registry is updated
\* even when ALTER TABLE failed.
addColumnToTableNoReturn(d, appId, tableName, col) ==
    LET ftn == fullTableName(appId, tableName) IN
    IF isNull(col) THEN Threw(d, "TypeError")
    ELSE
      LET altered == IF alterTableFails(d, ftn, col) THEN d
                     ELSE [d EXCEPT !.tables[ftn] = Append(@, storedColumn(col))]
      IN
      IF hasAppSchema(d, appId, tableName)
      THEN Ok([altered EXCEPT
                 !.app_schemas[<<appId, tableName>>] =
                     Append(getAppSchema(d, appId, tableName), col)])
      ELSE Ok(altered)

addColumnToTable(d, appId, tableName, col) ==
    LET ftn == fullTableName(appId, tableName) IN
    IF isNull(col) THEN Threw(d, "TypeError")
    ELSE IF alterTableFails(d, ftn, col) THEN Ok(d)
    ELSE
      LET altered == [d EXCEPT !.tables[ftn] = Append(@, storedColumn(col))]
          existing == getAppSchema(d, appId, tableName)
      IN
      IF hasAppSchema(d, appId, tableName)
      THEN Ok([altered EXCEPT
                 !.app_schemas[<<appId, tableName>>] = Append(existing, col)])
      ELSE Ok(altered)

\* A row is the list of its (key, value) cells, or a JSON null.
nullRow == [cells |-> <<>>, type |-> "null"]

rowKeys(row) == {row.cells[i][1] : i \in DOMAIN row.cells}

\* INSERT INTO "ftn" (<keys>) VALUES (...): fails for a null row
\* (Object.keys), for no keys at all (a syntax error), for a missing table
\* and for a key that is not a column.
insertRowFails(d, ftn, row) ==
    \/ isNull(row)
    \/ row.cells = <<>>
    \/ ftn \notin DOMAIN d.tables
    \/ ~(rowKeys(row) \subseteq columnNames(d.tables[ftn]))

insertRow(d, ftn, row) ==
    IF insertRowFails(d, ftn, row) THEN Threw(d, "SqliteError")
    ELSE Ok([d EXCEPT !.rows[ftn] = Append(@, row)])

getApp(d, id) == id \in DOMAIN d.apps

saveApp(d, id, html) ==
    IF id \in DOMAIN d.apps THEN Threw(d, "SqliteError")
    ELSE Ok([d EXCEPT !.apps = Put(@, id, html)])

updateAppHtml(d, appId, html) ==
    IF appId \in DOMAIN d.apps
    THEN Ok([d EXCEPT !.apps[appId] = html]) ELSE Ok(d)

saveAppCredentials(d, appId, username) ==
    IF \E c \in d.app_credentials : c.app_id = appId \/ c.username = username
    THEN Threw(d, "SqliteError")
    ELSE Ok([d EXCEPT
               !.app_credentials = @ \cup {[app_id |-> appId, username |-> username]}])

deleteApp(d, appId) ==
    LET names == {k[2] : k \in getAllAppSchemas(d, appId)}
        dropped == {fullTableName(appId, n) : n \in names}
    IN [d EXCEPT
          !.tables = Without(@, dropped),
          !.rows = Without(@, dropped),
          !.app_schemas = Without(@, getAllAppSchemas(d, appId)),
          !.app_credentials = {c \in @ : c.app_id # appId},
          !.apps = Without(@, {appId})]

emptyDb ==
    [apps |-> <<>>, app_credentials |-> {}, app_schemas |-> <<>>,
     tables |-> <<>>, rows |-> <<>>]

(***************************************************************************)
(* Synchronous stretches of src/generate.ts.  Each returns                 *)
(* [db, tr, threw, msg]: the database, the storage calls made so far, and  *)
(* whether (and with what message) the stretch threw.                      *)
(***************************************************************************)
Res(d, tr, threw, msg) == [db |-> d, tr |-> tr, threw |-> threw, msg |-> msg]

CallCreateAppTables(tables) ==
    [k |-> "call", name |-> "createAppTables", tables |-> tables]

CallAddColumnToTable(tableName, col) ==
    [k |-> "call", name |-> "addColumnToTable", table |-> tableName, col |-> col]

CallInsertRow(tableName, row, failed) ==
    [k |-> "call", name |-> "insertRow", table |-> tableName, row |-> row,
     failed |-> failed]

CallUpdateAppHtml(html) == [k |-> "call", name |-> "updateAppHtml", html |-> html]

CallSaveApp(id, html) == [k |-> "call", name |-> "saveApp", id |-> id, html |-> html]

CallSaveAppCredentials(id) == [k |-> "call", name |-> "saveAppCredentials", id |-> id]

Event(step, msg) == [k |-> "event", name |-> step, msg |-> msg]

Request(mode) == [k |-> "request", name |-> mode]

\* parseResponse on the text of a response.  The text is given by what the
\* three text-level steps make of it: extractJson finds its braces or not,
\* JSON.parse accepts it or not, repairTruncatedJson recovers a document
\* from it or not; data is the object JSON.parse then returns.
parseResponse(text, wasTruncated) ==
    LET data == text.data IN
    IF ~text.extracts
    THEN [threw |-> TRUE, msg |-> "No JSON object found in response", repaired |-> FALSE]
    ELSE IF ~text.parses /\ ~wasTruncated
    THEN [threw |-> TRUE, msg |-> "Failed to parse LLM response as JSON", repaired |-> FALSE]
    ELSE IF ~text.parses /\ ~text.repairs
    THEN [threw |-> TRUE,
          msg |-> "Response was truncated (max_tokens) and could not be repaired",
          repaired |-> TRUE]
    ELSE IF ~data.tablesIsArray
    THEN [threw |-> TRUE,
          msg |-> "Invalid response structure: missing or invalid 'tables' array",
          repaired |-> ~text.parses]
    ELSE IF ~data.htmlIsString
    THEN [threw |-> TRUE,
          msg |-> "Invalid response structure: missing or invalid 'html' string",
          repaired |-> ~text.parses]
    ELSE IF \E i \in DOMAIN data.tables :
              data.tables[i].name = <<>> \/ ~data.tables[i].columnsIsArray
    THEN [threw |-> TRUE, msg |-> "Invalid table definition", repaired |-> ~text.parses]
    ELSE [threw |-> FALSE, msg |-> "", repaired |-> ~text.parses]

\* insertSeedData: every row of every table whose value is a list, each in
\* its own try; never throws.
\* insertRows without the try around insertRow: the first failing row ends
\* the loop.
RECURSIVE insertRowsUntilFailure(_, _, _, _, _)
insertRowsUntilFailure(d, tr, appId, tableName, rows) ==
    IF rows = <<>> THEN Res(d, tr, FALSE, "")
    ELSE
      LET r == insertRow(d, getFullTableName(appId, tableName), Head(rows))
      IN
      IF r.threw
      THEN Res(d, Append(tr, CallInsertRow(tableName, Head(rows), TRUE)), FALSE, "")
      ELSE insertRowsUntilFailure(r.db, Append(tr, CallInsertRow(tableName, Head(rows), FALSE)),
                                  appId, tableName, Tail(rows))

RECURSIVE insertRows(_, _, _, _, _)
insertRows(d, tr, appId, tableName, rows) ==
    IF rows = <<>> THEN Res(d, tr, FALSE, "")
    ELSE
      LET r == insertRow(d, getFullTableName(appId, tableName), Head(rows))
      IN insertRows(r.db, Append(tr, CallInsertRow(tableName, Head(rows), r.threw)),
                    appId, tableName, Tail(rows))

RECURSIVE insertSeedData(_, _, _, _)
insertSeedData(d, tr, appId, seedData) ==
    IF seedData = <<>> THEN Res(d, tr, FALSE, "")
    ELSE
      LET e == Head(seedData) IN
      IF ~e.isArray THEN insertSeedData(d, tr, appId, Tail(seedData))
      ELSE LET r == insertRows(d, tr, appId, e.table, e.rows)
           IN insertSeedData(r.db, r.tr, appId, Tail(seedData))

\* for (const col of cols) addColumnToTable(appId, tableName, col)
RECURSIVE addColumns(_, _, _, _, _)
addColumns(d, tr, appId, tableName, cols) ==
    IF cols = <<>> THEN Res(d, tr, FALSE, "")
    ELSE
      LET r == addColumnToTable(d, appId, tableName, Head(cols))
          tr1 == Append(tr, CallAddColumnToTable(tableName, Head(cols)))
      IN IF r.threw THEN Res(r.db, tr1, TRUE, r.msg)
         ELSE addColumns(r.db, tr1, appId, tableName, Tail(cols))

\* for (const [tableName, cols] of Object.entries(newColumns)): a value that
\* is no list (null) has no length and raises a TypeError.
RECURSIVE addNewColumns(_, _, _, _)
addNewColumns(d, tr, appId, newColumns) ==
    IF newColumns = <<>> THEN Res(d, tr, FALSE, "")
    ELSE
      LET e == Head(newColumns) IN
      IF ~e.isArray THEN Res(d, tr, TRUE, "TypeError")
      ELSE LET r == addColumns(d, tr, appId, e.table, e.cols)
           IN IF r.threw THEN r
              ELSE addNewColumns(r.db, r.tr, appId, Tail(newColumns))

\* applyPatches: null (applied = FALSE) at the first patch whose search text
\* is empty or absent from the text so far; a null patch has no search and
\* raises a TypeError.
\* applyPatches that skips a patch whose search text is absent.
RECURSIVE applyPatchesSkipping(_, _)
applyPatchesSkipping(html, patches) ==
    IF patches = <<>> THEN [applied |-> TRUE, threw |-> FALSE, html |-> html]
    ELSE
      LET patch == Head(patches) IN
      IF isNull(patch) THEN [applied |-> FALSE, threw |-> TRUE, html |-> <<>>]
      ELSE IF patch.search = <<>> \/ ~includes(html, patch.search)
      THEN applyPatchesSkipping(html, Tail(patches))
      ELSE applyPatchesSkipping(replace(html, patch.search, patch.replace),
                                Tail(patches))

\* applyPatches that replaces every occurrence of a search text.
RECURSIVE applyPatchesGlobally(_, _)
applyPatchesGlobally(html, patches) ==
    IF patches = <<>> THEN [applied |-> TRUE, threw |-> FALSE, html |-> html]
    ELSE
      LET patch == Head(patches) IN
      IF isNull(patch) THEN [applied |-> FALSE, threw |-> TRUE, html |-> <<>>]
      ELSE IF patch.search = <<>> \/ ~includes(html, patch.search)
      THEN [applied |-> FALSE, threw |-> FALSE, html |-> <<>>]
      ELSE applyPatchesGlobally(replaceAll(html, patch.search, patch.replace),
                                Tail(patches))

RECURSIVE applyPatches(_, _)
applyPatches(html, patches) ==
    IF patches = <<>> THEN [applied |-> TRUE, threw |-> FALSE, html |-> html]
    ELSE
      LET patch == Head(patches) IN
      IF isNull(patch) THEN [applied |-> FALSE, threw |-> TRUE, html |-> <<>>]
      ELSE IF patch.search = <<>> \/ ~includes(html, patch.search)
      THEN [applied |-> FALSE, threw |-> FALSE, html |-> <<>>]
      ELSE applyPatches(replace(html, patch.search, patch.replace), Tail(patches))

wasTruncated(resp) == resp.stop_reason = "max_tokens"

\* appId.slice(0, 4)
alnum ==
    {"a", "b", "c", "d", "e", "f", "g", "h", "i", "j", "k", "l", "m", "n", "o",
     "p", "q", "r", "s", "t", "u", "v", "w", "x", "y", "z", "0", "1", "2", "3",
     "4", "5", "6", "7", "8", "9"}

slice(s, n) == Take(s, IF Len(s) < n THEN Len(s) ELSE n)

RECURSIVE skipNonAlnum(_)
skipNonAlnum(s) ==
    IF s # <<>> /\ Head(s) \notin alnum THEN skipNonAlnum(Tail(s)) ELSE s

\* .replace(/[^a-z0-9]+/g, "-")
RECURSIVE dashRuns(_)
dashRuns(s) ==
    IF s = <<>> THEN <<>>
    ELSE IF Head(s) \in alnum THEN <<Head(s)>> \o dashRuns(Tail(s))
    ELSE <<"-">> \o dashRuns(skipNonAlnum(s))

\* .replace(/^-|-$/g, "")
trimDashes(s) ==
    LET a == IF s # <<>> /\ Head(s) = "-" THEN Tail(s) ELSE s
    IN IF a # <<>> /\ a[Len(a)] = "-" THEN Take(a, Len(a) - 1) ELSE a

SLUG_LEN == 20

\* slugify; the titles of this model are in lower case already.
slugify(text) == slice(trimDashes(dashRuns(text)), SLUG_LEN)

SHORT_ID_LEN == 4

\* `app-${slug}-${shortId}`
credentialsUsername(title, appId) ==
    LET slug == IF slugify(title) = <<>> THEN <<"a", "p", "p">> ELSE slugify(title)
    IN <<"a", "p", "p", "-">> \o slug \o <<"-">> \o slice(appId, SHORT_ID_LEN)

\* generateApp from the resolution of stream.finalMessage() to its return.
generateAppFinish(d, resp, appId, title) ==
    IF resp.failed THEN Res(d, <<>>, TRUE, "API error")
    ELSE IF resp.blockType # "text"
    THEN Res(d, <<>>, TRUE, "Unexpected response type from Claude")
    ELSE
      LET p == parseResponse(resp.text, wasTruncated(resp))
          data == resp.text.data
      IN
      IF p.threw THEN Res(d, <<>>, TRUE, p.msg)
      ELSE
        LET c == createAppTables(d, appId, data.tables)
            tr1 == <<CallCreateAppTables(data.tables)>>
        IN
        IF c.threw THEN Res(c.db, tr1, TRUE, c.msg)
        ELSE
          LET s == insertSeedData(c.db, tr1, appId, data.seedData)
              html == substituteAppId(data.html, appId)
              sv == saveApp(s.db, appId, html)
              tr2 == Append(s.tr, CallSaveApp(appId, html))
          IN
          IF sv.threw THEN Res(sv.db, tr2, TRUE, sv.msg)
          ELSE
            LET cr == saveAppCredentials(sv.db, appId,
                                         credentialsUsername(title, appId))
            IN Res(cr.db, Append(tr2, CallSaveAppCredentials(appId)),
                   cr.threw, cr.msg)

\* regenerateApp from the resolution of stream.finalMessage() to its return.
regenerateAppFinish(d, resp, appId) ==
    IF resp.failed THEN Res(d, <<>>, TRUE, "API error")
    ELSE IF resp.blockType # "text" THEN Res(d, <<>>, TRUE, "Unexpected response type")
    ELSE
      LET p == parseResponse(resp.text, wasTruncated(resp))
          data == resp.text.data
      IN
      IF p.threw THEN Res(d, <<>>, TRUE, p.msg)
      ELSE
        LET c == createAppTables(d, appId, data.tables)
            tr1 == <<CallCreateAppTables(data.tables)>>
        IN
        IF c.threw THEN Res(c.db, tr1, TRUE, c.msg)
        ELSE
          LET s == insertSeedData(c.db, tr1, appId, data.seedData)
              html == substituteAppId(data.html, appId)
              u == updateAppHtml(s.db, appId, html)
          IN Res(u.db, Append(s.tr, CallUpdateAppHtml(html)), FALSE, "")

FastRes(d, tr, threw, msg, result) ==
    [db |-> d, tr |-> tr, threw |-> threw, msg |-> msg, result |-> result]

\* editAppFast creating the tables that newTables names before it adds the
\* new columns.
editAppFastCreatingTables(d, resp, appId, currentHtml) ==
    IF resp.failed THEN FastRes(d, <<>>, TRUE, "API error", "null")
    ELSE IF resp.blockType # "text" \/ ~resp.text.extracts \/ ~resp.text.parses
    THEN FastRes(d, <<>>, FALSE, "", "null")
    ELSE
      LET data == resp.text.data IN
      IF ~data.patchesIsArray THEN FastRes(d, <<>>, FALSE, "", "null")
      ELSE
        LET patched == applyPatches(currentHtml, data.patches) IN
        IF patched.threw THEN FastRes(d, <<>>, TRUE, "TypeError", "null")
        ELSE IF ~patched.applied THEN FastRes(d, <<>>, FALSE, "", "null")
        ELSE
          LET tables == [i \in DOMAIN data.newTables |->
                           [name |-> data.newTables[i], columns |-> <<>>,
                            columnsIsArray |-> TRUE]]
              ct == createAppTables(d, appId, tables)
              nc == addNewColumns(ct.db, <<CallCreateAppTables(tables)>>, appId,
                                  data.newColumns)
          IN
          IF nc.threw THEN FastRes(nc.db, nc.tr, TRUE, nc.msg, "null")
          ELSE
            LET s == insertSeedData(nc.db, nc.tr, appId, data.seedData)
                html == substituteAppId(patched.html, appId)
                u == updateAppHtml(s.db, appId, html)
            IN FastRes(u.db, Append(s.tr, CallUpdateAppHtml(html)), FALSE, "", "true")

\* editAppFast from the resolution of stream.finalMessage() to its return:
\* result is "true", or "null" (the caller should fall back).
editAppFast(d, resp, appId, currentHtml) ==
    IF resp.failed THEN FastRes(d, <<>>, TRUE, "API error", "null")
    ELSE IF resp.blockType # "text" THEN FastRes(d, <<>>, FALSE, "", "null")
    ELSE IF ~resp.text.extracts THEN FastRes(d, <<>>, FALSE, "", "null")
    ELSE IF ~resp.text.parses THEN FastRes(d, <<>>, FALSE, "", "null")
    ELSE
      LET data == resp.text.data IN
      IF ~data.patchesIsArray THEN FastRes(d, <<>>, FALSE, "", "null")
      ELSE
        LET patched == applyPatches(currentHtml, data.patches) IN
        IF patched.threw THEN FastRes(d, <<>>, TRUE, "TypeError", "null")
        ELSE IF ~patched.applied THEN FastRes(d, <<>>, FALSE, "", "null")
        ELSE
          LET nc == addNewColumns(d, <<>>, appId, data.newColumns) IN
          IF nc.threw THEN FastRes(nc.db, nc.tr, TRUE, nc.msg, "null")
          ELSE
            LET s == insertSeedData(nc.db, nc.tr, appId, data.seedData)
                html == substituteAppId(patched.html, appId)
                u == updateAppHtml(s.db, appId, html)
            IN FastRes(u.db, Append(s.tr, CallUpdateAppHtml(html)), FALSE, "", "true")

\* newTableDefs without the filter: every table the document describes.
allTableDefs(data) == data.tables

\* parsed.tables.filter((t) => parsed.newTables.includes(t.name))
newTableDefs(data) ==
    SelectSeq(data.tables,
              LAMBDA t : \E i \in DOMAIN data.newTables : data.newTables[i] = t.name)

\* editAppApply inserting the seed data before it adds the new columns.
editAppApplySeedFirst(d, resp, appId) ==
    LET p == parseResponse(resp.text, wasTruncated(resp))
        data == resp.text.data
    IN
    IF p.threw THEN Res(d, <<>>, TRUE, p.msg)
    ELSE
      LET c == IF data.newTables # <<>>
               THEN LET r == createAppTables(d, appId, newTableDefs(data))
                    IN Res(r.db, <<CallCreateAppTables(newTableDefs(data))>>,
                           r.threw, r.msg)
               ELSE Res(d, <<>>, FALSE, "")
      IN
      IF c.threw THEN c
      ELSE
        LET s == insertSeedData(c.db, c.tr, appId, data.seedData)
            nc == addNewColumns(s.db, s.tr, appId, data.newColumns)
        IN
        IF nc.threw THEN nc
        ELSE
          LET html == substituteAppId(data.html, appId)
              u == updateAppHtml(nc.db, appId, html)
          IN Res(u.db, Append(nc.tr, CallUpdateAppHtml(html)), FALSE, "")

\* editApp from parseResponse (after the 'applying' event) to updateAppHtml.
editAppApply(d, resp, appId) ==
    LET p == parseResponse(resp.text, wasTruncated(resp))
        data == resp.text.data
    IN
    IF p.threw THEN Res(d, <<>>, TRUE, p.msg)
    ELSE
      LET c == IF data.newTables # <<>>
               THEN LET r == createAppTables(d, appId, newTableDefs(data))
                    IN Res(r.db, <<CallCreateAppTables(newTableDefs(data))>>,
                           r.threw, r.msg)
               ELSE Res(d, <<>>, FALSE, "")
      IN
      IF c.threw THEN c
      ELSE
        LET nc == addNewColumns(c.db, c.tr, appId, data.newColumns) IN
        IF nc.threw THEN nc
        ELSE
          LET s == insertSeedData(nc.db, nc.tr, appId, data.seedData)
              html == substituteAppId(data.html, appId)
              u == updateAppHtml(s.db, appId, html)
          IN Res(u.db, Append(s.tr, CallUpdateAppHtml(html)), FALSE, "")

(***************************************************************************)
(* Inputs: what the generative service may answer                          *)
(***************************************************************************)
Col(name, type) == [name |-> name, type |-> type]

colC == Col(<<"c">>, "TEXT")
colD == Col(<<"d">>, "INTEGER")
colBad == Col(<<"-">>, "TEXT")          \* a name outside the identifier pattern

Tab(name, cols) == [name |-> name, columns |-> cols, columnsIsArray |-> TRUE]

tabT == <<"t">>
tabU == <<"u">>
tabBad == <<"-">>                       \* a name outside the identifier pattern

Row(cells) == [cells |-> cells, type |-> "row"]

rowC == Row(<< <<(<<"c">>), "str">> >>)
rowZ == Row(<< <<(<<"z">>), "str">> >>)  \* a key that is no column

Seed(tableName, rows) == [table |-> tableName, rows |-> rows, isArray |-> TRUE]

NewCols(tableName, cols) == [table |-> tableName, cols |-> cols, isArray |-> TRUE]

NewColsNull(tableName) == [table |-> tableName, cols |-> <<>>, isArray |-> FALSE]

Patch(search, repl) == [search |-> search, replace |-> repl, type |-> "patch"]

nullPatch == [search |-> <<>>, replace |-> <<>>, type |-> "null"]

\* The object JSON.parse returns: a full document (tables, html, ...), a
\* diff document (patches, ...), or an object with neither.
FullDoc(tables, html, seedData, newTables, newColumns) ==
    [tablesIsArray |-> TRUE, tables |-> tables, htmlIsString |-> TRUE,
     html |-> html, seedData |-> seedData, newTables |-> newTables,
     newColumns |-> newColumns, patchesIsArray |-> FALSE, patches |-> <<>>]

DiffDoc(patches, newTables, newColumns, seedData) ==
    [tablesIsArray |-> FALSE, tables |-> <<>>, htmlIsString |-> FALSE,
     html |-> <<>>, seedData |-> seedData, newTables |-> newTables,
     newColumns |-> newColumns, patchesIsArray |-> TRUE, patches |-> patches]

emptyDoc == [DiffDoc(<<>>, <<>>, <<>>, <<>>) EXCEPT !.patchesIsArray = FALSE]

Text(extracts, parses, repairs, data) ==
    [extracts |-> extracts, parses |-> parses, repairs |-> repairs, data |-> data]

Resp(failed, blockType, stop_reason, text) ==
    [failed |-> failed, blockType |-> blockType, stop_reason |-> stop_reason,
     text |-> text]

noResp == Resp(TRUE, "none", "none", Text(FALSE, FALSE, FALSE, emptyDoc))

\* A response whose text is the well-formed JSON of data.
Good(data) == Resp(FALSE, "text", "end_turn", Text(TRUE, TRUE, FALSE, data))

\* A response cut by the length limit that repair turns into data.
Repaired(data) == Resp(FALSE, "text", "max_tokens", Text(TRUE, FALSE, TRUE, data))

FailingResponses ==
    { Resp(TRUE, "none", "none", Text(FALSE, FALSE, FALSE, emptyDoc)),
      Resp(FALSE, "tool_use", "end_turn", Text(FALSE, FALSE, FALSE, emptyDoc)),
      Resp(FALSE, "text", "end_turn", Text(FALSE, FALSE, FALSE, emptyDoc)),
      Resp(FALSE, "text", "end_turn", Text(TRUE, FALSE, FALSE, emptyDoc)),
      Resp(FALSE, "text", "max_tokens", Text(TRUE, FALSE, FALSE, emptyDoc)) }

TablesChoices ==
    { <<>>,
      <<Tab(tabT, <<colC>>)>>,
      <<Tab(tabT, <<colC, colD>>)>>,
      <<Tab(tabT, <<colC>>), Tab(tabU, <<>>)>>,
      <<Tab(tabT, <<colC>>), Tab(tabT, <<colD>>)>>,
      <<Tab(tabBad, <<colBad>>)>> }

HtmlChoices == { <<"a", "b">>, <<"a", "a">>, <<"{", "}", "a", "{", "}">> }

SeedChoices ==
    { <<>>, <<Seed(tabT, <<rowC>>)>>, <<Seed(tabT, <<rowZ, rowC>>)>> }

invalidDocs ==
    { [FullDoc(<<>>, <<"a">>, <<>>, <<>>, <<>>) EXCEPT !.tablesIsArray = FALSE],
      [FullDoc(<<>>, <<>>, <<>>, <<>>, <<>>) EXCEPT !.htmlIsString = FALSE],
      FullDoc(<<Tab(<<>>, <<colC>>)>>, <<"a">>, <<>>, <<>>, <<>>),
      FullDoc(<<[Tab(tabT, <<>>) EXCEPT !.columnsIsArray = FALSE]>>, <<"a">>,
              <<>>, <<>>, <<>>) }

CreateDocs ==
    { FullDoc(tb, <<"a", "b">>, <<>>, <<>>, <<>>) : tb \in TablesChoices }
    \cup { FullDoc(<<Tab(tabT, <<colC>>)>>, h, <<>>, <<>>, <<>>) : h \in HtmlChoices }
    \cup { FullDoc(<<Tab(tabT, <<colC>>)>>, <<"a", "b">>, sd, <<>>, <<>>) :
             sd \in SeedChoices }
    \cup invalidDocs

CreateResponses ==
    FailingResponses \cup { Good(doc) : doc \in CreateDocs }
    \cup { Repaired(FullDoc(<<Tab(tabT, <<colC>>)>>, <<"a", "b">>, <<>>, <<>>, <<>>)) }

EditTablesChoices ==
    { <<Tab(tabT, <<colC>>), Tab(tabU, <<colC>>)>>,
      <<Tab(tabT, <<colD>>), Tab(tabU, <<colC>>)>>,
      <<Tab(tabU, <<colC>>), Tab(tabT, <<>>)>> }

NewTablesChoices == { <<>>, <<tabU>>, <<tabU, tabT>> }

NewColumnsChoices ==
    { <<>>,
      <<NewCols(tabT, <<colD>>)>>,
      <<NewCols(tabT, <<colD, colD>>)>>,
      <<NewCols(tabT, <<colD, nullCol>>)>>,
      <<NewCols(tabT, <<colBad>>)>>,
      <<NewCols(tabT, <<colD>>), NewColsNull(tabU)>> }

EditDocs ==
    { FullDoc(tb, <<"b">>, <<>>, <<tabU, tabT>>, <<>>) : tb \in EditTablesChoices }
    \cup { FullDoc(<<Tab(tabT, <<colC>>), Tab(tabU, <<colC>>)>>, <<"b">>, <<>>,
                   nt, <<>>) : nt \in NewTablesChoices }
    \cup { FullDoc(<<Tab(tabT, <<colC>>)>>, <<"b">>, <<>>, <<>>, nc) :
             nc \in NewColumnsChoices }
    \cup { FullDoc(<<Tab(tabT, <<colC>>)>>, <<"{", "}", "b", "{", "}">>, sd, <<>>,
                   <<NewCols(tabT, <<colD>>)>>) : sd \in SeedChoices }
    \cup { FullDoc(<<Tab(tabT, <<colC>>), Tab(tabU, <<colC>>)>>, <<"{", "}", "b">>,
                   <<Seed(tabT, <<rowC>>)>>, <<tabU>>, <<NewCols(tabT, <<colD>>)>>) }
    \cup invalidDocs

EditResponses ==
    FailingResponses \cup { Good(doc) : doc \in EditDocs }
    \cup { Repaired(FullDoc(<<Tab(tabT, <<colC>>)>>, <<"b">>, <<>>, <<>>, <<>>)) }

PatchesChoices ==
    { <<>>,
      <<Patch(<<"a">>, <<"b">>)>>,
      <<Patch(<<"a">>, <<"{", "}", "$", "&">>)>>,
      <<Patch(<<"a">>, <<"b">>), Patch(<<"z">>, <<"a">>)>>,
      <<Patch(<<"a">>, <<"b">>), Patch(<<"a">>, <<"b">>)>>,
      <<Patch(<<"b">>, <<"a">>), Patch(<<"a">>, <<"b">>)>>,
      <<Patch(<<"a">>, <<"z">>), Patch(<<"z">>, <<>>)>>,
      <<Patch(<<>>, <<"b">>)>>,
      <<Patch(<<"a">>, <<"b">>), nullPatch>> }

DiffDocs ==
    { DiffDoc(ps, <<>>, <<>>, <<>>) : ps \in PatchesChoices }
    \cup { DiffDoc(<<>>, <<tabU>>, nc, <<>>) : nc \in NewColumnsChoices }
    \cup { DiffDoc(<<Patch(<<"a">>, <<"b">>)>>, <<>>, <<NewCols(tabT, <<colD>>)>>, sd) :
             sd \in SeedChoices }
    \cup { FullDoc(<<Tab(tabT, <<colC>>)>>, <<"b">>, <<>>, <<>>, <<>>) }

FastResponses == FailingResponses \cup { Good(doc) : doc \in DiffDocs }

\* Identifiers as crypto.randomUUID() may return them: two that differ, and
\* that agree on their first four characters.
AppIds == { <<"1", "2", "3", "4", "-", "a">>, <<"1", "2", "3", "4", "-", "b">> }

Titles == { <<"p", " ", "!", "q", "?">>, <<"q">> }

(***************************************************************************)
(* Pipeline runs.  run[r] is the state of one invocation of generateApp,   *)
(* editApp or regenerateApp: pc is the await it is suspended at; tr is the *)
(* sequence of progress events emitted, requests issued to the generative  *)
(* service and storage calls made; start is the database the run found;    *)
(* fastTr is the part of tr that editAppFast made and fastWrote records    *)
(* whether those calls changed the database.                               *)
(***************************************************************************)
idleRun ==
    [pc |-> "idle", kind |-> "none", appId |-> <<>>, title |-> <<>>,
     consumer |-> FALSE, html |-> <<>>, tr |-> <<>>, fast |-> "none",
     fastTr |-> <<>>, fastWrote |-> FALSE, hasFastResp |-> FALSE,
     fastResp |-> noResp, resp |-> noResp, start |-> emptyDb, streamed |-> 0, msg |-> ""]

Finished == {"idle", "done", "error"}

St(rr, d) == [run |-> rr, db |-> d]

\* editFail issuing the full-regeneration request once more when the repair
\* of a truncated response has failed.
editFailRetrying(rr, d, msg) ==
    IF /\ msg = "Response was truncated (max_tokens) and could not be repaired"
       /\ Cardinality({i \in DOMAIN rr.tr : rr.tr[i] = Request("full")}) < 2
    THEN St([rr EXCEPT !.tr = Append(@, Request("full")), !.pc = "full_wait",
                       !.streamed = 0, !.msg = msg], d)
    ELSE St([rr EXCEPT !.tr = IF rr.consumer THEN Append(@, Event("error", msg)) ELSE @,
                       !.pc = "error", !.msg = msg], d)

\* catch (err) { onProgress?.({step: "error", message: msg}); throw err }
editFail(rr, d, msg) ==
    St([rr EXCEPT !.tr = IF rr.consumer THEN Append(@, Event("error", msg)) ELSE @,
                  !.pc = "error", !.msg = msg], d)

\* if (onProgress) await onProgress({step: "complete"}); return true
editComplete(rr, d) ==
    IF rr.consumer
    THEN St([rr EXCEPT !.tr = Append(@, Event("complete", "Edit complete")),
                       !.pc = "complete"], d)
    ELSE St([rr EXCEPT !.pc = "done"], d)

\* a is what applying the full response did: complete, or catch and rethrow.
editApplyOutcome(rr, a) ==
    LET rr1 == [rr EXCEPT !.tr = @ \o a.tr, !.resp = noResp]
    IN IF a.threw THEN editFail(rr1, a.db, a.msg) ELSE editComplete(rr1, a.db)

editApplyStep(rr, d) ==
    CHOOSE st \in { editApplyOutcome(rr, a) :
                       a \in {editAppApply(d, rr.resp, rr.appId)} } : TRUE

\* From the resolution of the full request's finalMessage() to the next await.
editOnFullResponse(rr, d, resp) ==
    LET rr0 == [rr EXCEPT !.hasFastResp = FALSE, !.fastResp = noResp] IN
    IF resp.failed THEN editFail(rr0, d, "API error")
    ELSE IF resp.blockType # "text"
    THEN editFail(rr0, d, "Unexpected response type from Claude")
    ELSE IF rr.consumer
    THEN St([rr0 EXCEPT !.tr = Append(@, Event("applying", "Applying changes...")),
                        !.pc = "applying", !.resp = resp], d)
    ELSE editApplyStep([rr0 EXCEPT !.resp = resp], d)

\* client.messages.stream(...) of the fallback phase, to await finalMessage().
editIssueFull(rr, d) ==
    St([rr EXCEPT !.tr = Append(@, Request("full")), !.pc = "full_wait",
                  !.streamed = 0], d)

\* An editApp without the fallback: a failed fast attempt fails the request.
editWithoutFallback(rr, d) == editFail(rr, d, "fast edit failed")

editFallback(rr, d) ==
    IF rr.consumer
    THEN St([rr EXCEPT !.tr = Append(@, Event("generating", "Regenerating full app")),
                       !.pc = "fallback"], d)
    ELSE editIssueFull(rr, d)

\* From the resolution of the fast request's finalMessage() to the next await.
\* editFastOutcome going on to the fallback whatever editAppFast returned.
editFastThenFallback(rr, d, resp, f) ==
    editFallback([rr EXCEPT !.tr = @ \o f.tr, !.fastTr = f.tr,
                            !.fastWrote = (f.db # d),
                            !.hasFastResp = TRUE, !.fastResp = resp,
                            !.fast = IF f.threw THEN "threw" ELSE f.result], f.db)

\* editFastOutcome with a suspension point after the storage writes of
\* editAppFast: the run stays at its await and handles a response once more
\* when it resumes.
editFastOutcomeSuspended(rr, d, resp, f) ==
    IF f.tr # <<>> /\ rr.fastTr = <<>>
    THEN St([rr EXCEPT !.tr = @ \o f.tr, !.fastTr = f.tr], f.db)
    ELSE
      LET rr1 == [rr EXCEPT !.tr = @ \o f.tr, !.fastTr = f.tr,
                            !.fastWrote = (f.db # d),
                            !.hasFastResp = TRUE, !.fastResp = resp,
                            !.fast = IF f.threw THEN "threw" ELSE f.result]
      IN IF ~f.threw /\ f.result = "true" THEN editComplete(rr1, f.db)
         ELSE editFallback(rr1, f.db)

\* f is what editAppFast did: true completes the edit, null or an error
\* caught by editApp leads to the fallback.
editFastOutcome(rr, d, resp, f) ==
    LET rr1 == [rr EXCEPT !.tr = @ \o f.tr, !.fastTr = f.tr,
                          !.fastWrote = (f.db # d),
                          !.hasFastResp = TRUE, !.fastResp = resp,
                          !.fast = IF f.threw THEN "threw" ELSE f.result]
    IN IF ~f.threw /\ f.result = "true" THEN editComplete(rr1, f.db)
       ELSE editFallback(rr1, f.db)

\* editOnFastResponse applying the patches to the markup persisted when the
\* response arrives instead of the markup read before the request.
editOnFastResponseRereading(rr, d, resp) ==
    CHOOSE st \in { editFastOutcome(rr, d, resp, f) :
                       f \in {editAppFast(d, resp, rr.appId, d.apps[rr.appId])} } : TRUE

\* (f ranges over a one-element set, so that what editAppFast did is
\* computed once.)
editOnFastResponse(rr, d, resp) ==
    CHOOSE st \in { editFastOutcome(rr, d, resp, f) :
                       f \in {editAppFast(d, resp, rr.appId, rr.html)} } : TRUE

\* client.messages.stream(...) of editAppFast, to await finalMessage().
editIssueFast(rr, d) ==
    St([rr EXCEPT !.tr = Append(@, Request("fast")), !.pc = "fast_wait",
                  !.streamed = 0], d)

editGenerating(rr, d) ==
    IF rr.consumer
    THEN St([rr EXCEPT !.tr = Append(@, Event("generating", "Generating changes...")),
                       !.pc = "generating"], d)
    ELSE editIssueFast(rr, d)

editAnalyzing(rr, d) ==
    IF rr.consumer
    THEN St([rr EXCEPT !.tr = Append(@, Event("analyzing", "Analyzing app and schema...")),
                       !.pc = "analyzing"], d)
    ELSE editGenerating(rr, d)

\* editBegin emitting 'analyzing' before it looks the application up.
editBeginAnalyzingFirst(d, appId, consumer) ==
    LET rr == [idleRun EXCEPT !.kind = "edit", !.appId = appId,
                              !.consumer = consumer, !.start = d,
                              !.tr = IF consumer
                                     THEN <<Event("analyzing", "Analyzing app and schema...")>>
                                     ELSE <<>>]
    IN IF ~getApp(d, appId) THEN editFail(rr, d, "App not found")
       ELSE IF consumer THEN St([rr EXCEPT !.html = d.apps[appId], !.pc = "analyzing"], d)
       ELSE editGenerating([rr EXCEPT !.html = d.apps[appId]], d)

\* editApp from its call to its first await.
editBegin(d, appId, consumer) ==
    LET rr == [idleRun EXCEPT !.kind = "edit", !.appId = appId,
                              !.consumer = consumer, !.start = d]
    IN IF ~getApp(d, appId) THEN editFail(rr, d, "App not found")
       ELSE editAnalyzing([rr EXCEPT !.html = d.apps[appId]], d)

(***************************************************************************)
(* Actions                                                                 *)
(***************************************************************************)
CanStart(r) == run[r].pc \in Finished /\ nreq < MaxRequests

Set(r, st) ==
    /\ run' = [run EXCEPT ![r] = st.run]
    /\ db' = st.db

StartEdit(r) ==
    /\ CanStart(r)
    /\ \E appId \in AppIds, consumer \in BOOLEAN :
         Set(r, editBegin(db, appId, consumer))
    /\ nreq' = nreq + 1
    /\ UNCHANGED <<usedIds, raw, out>>

EditAfterAnalyzing(r) ==
    /\ run[r].kind = "edit" /\ run[r].pc = "analyzing"
    /\ Set(r, editGenerating(run[r], db))
    /\ UNCHANGED <<nreq, usedIds, raw, out>>

EditAfterGenerating(r) ==
    /\ run[r].kind = "edit" /\ run[r].pc = "generating"
    /\ Set(r, editIssueFast(run[r], db))
    /\ UNCHANGED <<nreq, usedIds, raw, out>>

\* stream.on("text"): a 'generating' event with the token count, not awaited.
\* Without a consumer the handler changes nothing.
StreamProgress(r) ==
    /\ run[r].kind = "edit" /\ run[r].pc \in {"fast_wait", "full_wait"}
    /\ run[r].consumer
    /\ run[r].streamed < MaxStreamEvents
    /\ run' = [run EXCEPT ![r].streamed = @ + 1,
                          ![r].tr = Append(@, Event("generating", "tokens"))]
    /\ UNCHANGED <<db, nreq, usedIds, raw, out>>

FastResponse(r) ==
    /\ run[r].kind = "edit" /\ run[r].pc = "fast_wait"
    /\ \E resp \in FastResponses : Set(r, editOnFastResponse(run[r], db, resp))
    /\ UNCHANGED <<nreq, usedIds, raw, out>>

EditAfterFallback(r) ==
    /\ run[r].kind = "edit" /\ run[r].pc = "fallback"
    /\ Set(r, editIssueFull(run[r], db))
    /\ UNCHANGED <<nreq, usedIds, raw, out>>

FullResponse(r) ==
    /\ run[r].kind = "edit" /\ run[r].pc = "full_wait"
    /\ \E resp \in EditResponses : Set(r, editOnFullResponse(run[r], db, resp))
    /\ UNCHANGED <<nreq, usedIds, raw, out>>

EditApply(r) ==
    /\ run[r].kind = "edit" /\ run[r].pc = "applying"
    /\ Set(r, editApplyStep(run[r], db))
    /\ UNCHANGED <<nreq, usedIds, raw, out>>

EditReturn(r) ==
    /\ run[r].kind = "edit" /\ run[r].pc = "complete"
    /\ run' = [run EXCEPT ![r].pc = "done"]
    /\ UNCHANGED <<db, nreq, usedIds, raw, out>>

\* generateApp from its call to await stream.finalMessage().
StartGenerate(r) ==
    /\ CanStart(r)
    /\ \E hasBody \in BOOLEAN, title \in Titles :
         LET rr == [idleRun EXCEPT !.kind = "generate", !.title = title, !.start = db]
         IN run' = [run EXCEPT ![r] =
              IF hasBody
              THEN [rr EXCEPT !.pc = "create_wait", !.tr = <<Request("create")>>]
              ELSE [rr EXCEPT !.pc = "error",
                              !.msg = "App description (body) is required"]]
    /\ nreq' = nreq + 1
    /\ UNCHANGED <<db, usedIds, raw, out>>

\* crypto.randomUUID() never returns an identifier twice.
GenerateResponse(r) ==
    /\ run[r].kind = "generate" /\ run[r].pc = "create_wait"
    /\ \E resp \in CreateResponses, appId \in AppIds \ usedIds :
         LET g == generateAppFinish(db, resp, appId, run[r].title)
             drawn == ~resp.failed /\ resp.blockType = "text"
                      /\ ~parseResponse(resp.text, wasTruncated(resp)).threw
         IN /\ db' = g.db
            /\ usedIds' = IF drawn THEN usedIds \cup {appId} ELSE usedIds
            /\ run' = [run EXCEPT ![r].tr = @ \o g.tr,
                                  ![r].appId = IF drawn THEN appId ELSE <<>>,
                                  ![r].msg = g.msg,
                                  ![r].pc = IF g.threw THEN "error" ELSE "done"]
    /\ UNCHANGED <<nreq, raw, out>>

\* regenerateApp from its call to await stream.finalMessage().
StartRegenerate(r) ==
    /\ CanStart(r)
    /\ \E appId \in AppIds :
         LET rr == [idleRun EXCEPT !.kind = "regenerate", !.appId = appId,
                                   !.start = db]
         IN run' = [run EXCEPT ![r] =
              IF getApp(db, appId)
              THEN [rr EXCEPT !.pc = "create_wait", !.tr = <<Request("create")>>]
              ELSE [rr EXCEPT !.pc = "error", !.msg = "App not found"]]
    /\ nreq' = nreq + 1
    /\ UNCHANGED <<db, usedIds, raw, out>>

RegenerateResponse(r) ==
    /\ run[r].kind = "regenerate" /\ run[r].pc = "create_wait"
    /\ \E resp \in CreateResponses :
         LET g == regenerateAppFinish(db, resp, run[r].appId)
         IN /\ db' = g.db
            /\ run' = [run EXCEPT ![r].tr = @ \o g.tr, ![r].msg = g.msg,
                                  ![r].pc = IF g.threw THEN "error" ELSE "done"]
    /\ UNCHANGED <<nreq, usedIds, raw, out>>

\* POST /api/apps/:appId/delete
DeleteApp(r) ==
    /\ CanStart(r)
    /\ \E appId \in DOMAIN db.apps :
         /\ db' = deleteApp(db, appId)
         /\ run' = [run EXCEPT ![r] = [idleRun EXCEPT !.kind = "delete",
                                                      !.appId = appId,
                                                      !.start = db, !.pc = "done"]]
    /\ nreq' = nreq + 1
    /\ UNCHANGED <<usedIds, raw, out>>

Init ==
    /\ db = emptyDb
    /\ run = [r \in Runs |-> idleRun]
    /\ nreq = 0
    /\ usedIds = {}
    /\ raw = <<>>
    /\ out = <<>>

Step(r) ==
    \/ StartGenerate(r)
    \/ GenerateResponse(r)
    \/ StartRegenerate(r)
    \/ RegenerateResponse(r)
    \/ DeleteApp(r)
    \/ StartEdit(r)
    \/ EditAfterAnalyzing(r)
    \/ EditAfterGenerating(r)
    \/ StreamProgress(r)
    \/ FastResponse(r)
    \/ EditAfterFallback(r)
    \/ FullResponse(r)
    \/ EditApply(r)
    \/ EditReturn(r)

\* One request at a time.
Next == Step(1)

Spec == Init /\ [][Next]_vars

(***************************************************************************)
(* The truncation repairer on text.  A JSON text is a sequence of          *)
(* characters; a parsed value is [t, s, kids]: t its type, s the decoded   *)
(* characters of a string or the digits of a number, kids the elements of  *)
(* an array or the members of an object in document order, each            *)
(* [k |-> key, v |-> value] (k is empty for an array element).             *)
(***************************************************************************)
QUOTE == "\""

BACKSLASH == "\\"

digits == {"0", "1", "2", "3", "4", "5", "6", "7", "8", "9"}

\* The white space of the texts of this model: space and line feed.
whitespace == {" ", "\n"}

Str(chars) == [t |-> "string", s |-> chars, kids |-> <<>>]

Num(chars) == [t |-> "number", s |-> chars, kids |-> <<>>]

Arr(kids) == [t |-> "array", s |-> <<>>, kids |-> kids]

Obj(kids) == [t |-> "object", s |-> <<>>, kids |-> kids]

Null == [t |-> "null", s |-> <<>>, kids |-> <<>>]

Kid(k, v) == [k |-> k, v |-> v]

Parsed(v, rest) == [ok |-> TRUE, v |-> v, rest |-> rest]

SyntaxError == [ok |-> FALSE, v |-> Str(<<>>), rest |-> <<>>]

RECURSIVE skipWs(_)
skipWs(s) == IF s # <<>> /\ Head(s) \in whitespace THEN skipWs(Tail(s)) ELSE s

\* The characters of a string literal after its opening quote.  Of the
\* escapes only \" and \\ occur in the texts of this model; a line feed
\* inside a literal is a control character, which JSON.parse rejects.
RECURSIVE parseChars(_, _)
parseChars(s, acc) ==
    IF s = <<>> THEN SyntaxError
    ELSE IF Head(s) = QUOTE THEN Parsed(Str(acc), Tail(s))
    ELSE IF Head(s) = "\n" THEN SyntaxError
    ELSE IF Head(s) = BACKSLASH
    THEN IF Len(s) >= 2 /\ s[2] \in {QUOTE, BACKSLASH}
         THEN parseChars(Drop(s, 2), Append(acc, s[2]))
         ELSE SyntaxError
    ELSE parseChars(Tail(s), Append(acc, Head(s)))

RECURSIVE digitRun(_)
digitRun(s) ==
    IF s # <<>> /\ Head(s) \in digits THEN <<Head(s)>> \o digitRun(Tail(s)) ELSE <<>>

parseNumber(s) ==
    LET ds == digitRun(s) IN
    IF ds = <<>> \/ (Len(ds) > 1 /\ ds[1] = "0") THEN SyntaxError
    ELSE Parsed(Num(ds), Drop(s, Len(ds)))

RECURSIVE parseValue(_)
RECURSIVE parseElements(_, _, _)
RECURSIVE parseMembers(_, _, _)

parseValue(s0) ==
    LET s == skipWs(s0) IN
    IF s = <<>> THEN SyntaxError
    ELSE IF Head(s) = QUOTE THEN parseChars(Tail(s), <<>>)
    ELSE IF Head(s) = "[" THEN parseElements(Tail(s), <<>>, TRUE)
    ELSE IF Head(s) = "{" THEN parseMembers(Tail(s), <<>>, TRUE)
    ELSE IF Head(s) \in digits THEN parseNumber(s)
    ELSE IF startsWithAt(s, <<"n", "u", "l", "l">>, 1) THEN Parsed(Null, Drop(s, 4))
    ELSE SyntaxError

\* The elements of an array after "[" (first) or after a comma.
parseElements(s0, acc, first) ==
    LET s == skipWs(s0) IN
    IF first /\ s # <<>> /\ Head(s) = "]" THEN Parsed(Arr(acc), Tail(s))
    ELSE
      LET r == parseValue(s)
          u == skipWs(r.rest)
          kids == Append(acc, Kid(<<>>, r.v))
      IN
      IF ~r.ok \/ u = <<>> THEN SyntaxError
      ELSE IF Head(u) = "," THEN parseElements(Tail(u), kids, FALSE)
      ELSE IF Head(u) = "]" THEN Parsed(Arr(kids), Tail(u))
      ELSE SyntaxError

\* The members of an object after "{" (first) or after a comma.
parseMembers(s0, acc, first) ==
    LET s == skipWs(s0) IN
    IF first /\ s # <<>> /\ Head(s) = "}" THEN Parsed(Obj(acc), Tail(s))
    ELSE IF s = <<>> \/ Head(s) # QUOTE THEN SyntaxError
    ELSE
      LET key == parseChars(Tail(s), <<>>)
          c == skipWs(key.rest)
      IN
      IF ~key.ok \/ c = <<>> \/ Head(c) # ":" THEN SyntaxError
      ELSE
        LET r == parseValue(Tail(c))
            u == skipWs(r.rest)
            kids == Append(acc, Kid(key.v.s, r.v))
        IN
        IF ~r.ok \/ u = <<>> THEN SyntaxError
        ELSE IF Head(u) = "," THEN parseMembers(Tail(u), kids, FALSE)
        ELSE IF Head(u) = "}" THEN Parsed(Obj(kids), Tail(u))
        ELSE SyntaxError

\* JSON.parse: one value, then nothing but whitespace.
JSONparse(text) ==
    LET r == parseValue(text) IN
    IF r.ok /\ skipWs(r.rest) = <<>> THEN Parsed(r.v, <<>>) ELSE SyntaxError

RECURSIVE trimEnd(_)
trimEnd(s) ==
    IF s # <<>> /\ s[Len(s)] \in whitespace THEN trimEnd(Take(s, Len(s) - 1)) ELSE s

RECURSIVE reverse(_)
reverse(s) == IF s = <<>> THEN <<>> ELSE Append(reverse(Tail(s)), Head(s))

scanStart ==
    [inString |-> FALSE, escape |-> FALSE, lastCloseBracketPos |-> 0, stack |-> <<>>]

\* One iteration of the scanning loop, on the character at 0-based index i.
scanChar(st, ch, i) ==
    IF st.escape THEN [st EXCEPT !.escape = FALSE]
    ELSE IF st.inString
    THEN IF ch = BACKSLASH THEN [st EXCEPT !.escape = TRUE]
         ELSE IF ch = QUOTE THEN [st EXCEPT !.inString = FALSE]
         ELSE st
    ELSE IF ch = QUOTE THEN [st EXCEPT !.inString = TRUE]
    ELSE IF ch = "{" THEN [st EXCEPT !.stack = Append(@, "}")]
    ELSE IF ch = "[" THEN [st EXCEPT !.stack = Append(@, "]")]
    ELSE IF ch \in {"}", "]"}
    THEN IF st.stack # <<>> /\ st.stack[Len(st.stack)] = ch
         THEN [st EXCEPT !.stack = Take(@, Len(@) - 1),
                         !.lastCloseBracketPos = i + 1]
         ELSE st
    ELSE st

\* The iterations lo <= i < hi of the scanning loop, from state st: those
\* of the first half of the range, then those of the second half.  No
\* bracket is closed beyond lo in st; the test has TLC evaluate st before
\* it enters the range, which keeps its evaluation stack shallow.
RECURSIVE scanFrom(_, _, _, _)
scanFrom(st, text, lo, hi) ==
    IF st.lastCloseBracketPos > lo \/ lo >= hi THEN st
    ELSE IF lo + 1 = hi THEN scanChar(st, text[hi], lo)
    ELSE scanFrom(scanFrom(st, text, lo, (lo + hi) \div 2), text, (lo + hi) \div 2, hi)

\* The scanning loop over the first n characters of text.
scan(text, n) == scanFrom(scanStart, text, 0, n)

Returned(text) == [done |-> TRUE, threw |-> FALSE, text |-> text]

RepairFailure == [done |-> TRUE, threw |-> TRUE, text |-> <<>>]

\* repairTruncatedJson appending the closers in the order they were opened.
repairWithoutReverse(text) ==
    IF JSONparse(text).ok THEN Returned(text)
    ELSE
      LET last == scan(text, Len(text)).lastCloseBracketPos
          cut == trimEnd(Take(text, last))
          repaired == IF cut # <<>> /\ cut[Len(cut)] = ","
                      THEN Take(cut, Len(cut) - 1) ELSE cut
          closing == scan(repaired, Len(repaired)).stack
      IN
      IF JSONparse(repaired \o closing).ok THEN Returned(repaired \o closing)
      ELSE RepairFailure

\* repairTruncatedJson closing an open string literal before the brackets.
repairClosingLiterals(text) ==
    IF JSONparse(text).ok THEN Returned(text)
    ELSE
      LET closed == IF scan(text, Len(text)).inString THEN Append(text, QUOTE)
                    ELSE text
          closing == reverse(scan(closed, Len(closed)).stack)
      IN
      IF JSONparse(closed \o closing).ok THEN Returned(closed \o closing)
      ELSE RepairFailure

\* repairTruncatedJson keeping the text that follows the last closed
\* structure: it closes what is open at the end of the input.
repairWithoutTruncation(text) ==
    IF JSONparse(text).ok THEN Returned(text)
    ELSE
      LET cut == trimEnd(text)
          repaired == IF cut # <<>> /\ cut[Len(cut)] = ","
                      THEN Take(cut, Len(cut) - 1) ELSE cut
          closing == reverse(scan(repaired, Len(repaired)).stack)
      IN
      IF JSONparse(repaired \o closing).ok THEN Returned(repaired \o closing)
      ELSE RepairFailure

\* repairTruncatedJson without the test for a text that already parses.
repairAlways(text) ==
    LET last == scan(text, Len(text)).lastCloseBracketPos
        cut == trimEnd(Take(text, last))
        repaired == IF cut # <<>> /\ cut[Len(cut)] = ","
                    THEN Take(cut, Len(cut) - 1) ELSE cut
        closing == reverse(scan(repaired, Len(repaired)).stack)
    IN
    IF JSONparse(repaired \o closing).ok THEN Returned(repaired \o closing)
    ELSE RepairFailure

repairTruncatedJson(text) ==
    IF JSONparse(text).ok THEN Returned(text)
    ELSE
      LET last == scan(text, Len(text)).lastCloseBracketPos
          cut == trimEnd(Take(text, last))
          repaired == IF cut # <<>> /\ cut[Len(cut)] = ","
                      THEN Take(cut, Len(cut) - 1) ELSE cut
          openStack == scan(repaired, Len(repaired)).stack
          closing == reverse(openStack)
      IN
      IF JSONparse(repaired \o closing).ok THEN Returned(repaired \o closing)
      ELSE RepairFailure

(***************************************************************************)
(* Specification of the repairer alone: raw is a response text, first a    *)
(* whole document, then possibly cut to a prefix; out is what              *)
(* repairTruncatedJson made of it.                                         *)
(***************************************************************************)
\* {"a":[1],"b":[[1],[2]]}
doc1 ==
    <<"{", QUOTE, "a", QUOTE, ":", "[", "1", "]", ",", QUOTE, "b", QUOTE, ":",
      "[", "[", "1", "]", ",", "[", "2", "]", "]", "}">>

\* {"a":{"b":[1,{"c":"}"}]},"d":1}
doc2 ==
    <<"{", QUOTE, "a", QUOTE, ":", "{", QUOTE, "b", QUOTE, ":", "[", "1", ",",
      "{", QUOTE, "c", QUOTE, ":", QUOTE, "}", QUOTE, "}", "]", "}", ",",
      QUOTE, "d", QUOTE, ":", "1", "}">>

\* {"a":"\"}\"","b":[{}]}
doc3 ==
    <<"{", QUOTE, "a", QUOTE, ":", QUOTE, BACKSLASH, QUOTE, "}", BACKSLASH,
      QUOTE, QUOTE, ",", QUOTE, "b", QUOTE, ":", "[", "{", "}", "]", "}">>

\* { "a" : [ 1 ] , "b" : { } }
doc4 ==
    <<"{", " ", QUOTE, "a", QUOTE, " ", ":", " ", "[", " ", "1", " ", "]", " ",
      ",", " ", QUOTE, "b", QUOTE, " ", ":", " ", "{", " ", "}", " ", "}">>

\* [[1],[["a\\"]],{"]":[]}]
doc5 ==
    <<"[", "[", "1", "]", ",", "[", "[", QUOTE, "a", BACKSLASH, BACKSLASH,
      QUOTE, "]", "]", ",", "{", QUOTE, "]", QUOTE, ":", "[", "]", "}", "]">>

\* {"tables":[{"name":"t","columns":[]}],"html":"a"}, keys shortened
doc6 ==
    <<"{", QUOTE, "t", QUOTE, ":", "[", "{", QUOTE, "n", QUOTE, ":", QUOTE,
      "t", QUOTE, ",", QUOTE, "c", QUOTE, ":", "[", "]", "}", "]", ",", QUOTE,
      "h", QUOTE, ":", QUOTE, "a", QUOTE, "}">>

\* [1] followed by a blank
doc7 == <<"[", "1", "]", " ">>

Documents == {doc1, doc2, doc3, doc4, doc5, doc6, doc7}

notRepaired == [done |-> FALSE, threw |-> FALSE, text |-> <<>>]

InitRepair ==
    /\ db = emptyDb
    /\ run = [r \in Runs |-> idleRun]
    /\ nreq = 0
    /\ usedIds = {}
    /\ raw \in Documents
    /\ out = notRepaired

\* The response is cut off: stop_reason max_tokens.
Truncate ==
    /\ raw \in Documents /\ ~out.done
    /\ \E n \in 0..(Len(raw) - 1) : raw' = Take(raw, n)
    /\ UNCHANGED <<db, run, nreq, usedIds, out>>

Repair ==
    /\ ~out.done
    /\ out' = repairTruncatedJson(raw)
    /\ UNCHANGED <<db, run, nreq, usedIds, raw>>

NextRepair == Truncate \/ Repair

SpecRepair == InitRepair /\ [][NextRepair]_vars

(***************************************************************************)
(* The parsing pipeline on text: stripCodeFences, extractJson and          *)
(* parseResponse (extraction, JSON.parse, repair when the response was cut *)
(* by the length limit, validation).  The keys of a document are shortened *)
(* to one letter: tables "t", name "n", columns "c", html "h",             *)
(* seedData "s".                                                           *)
(***************************************************************************)
\* The fence marker, three backquotes; a backquote is written "~" here,
\* a TLA+ string cannot hold one.
FENCE == <<"~", "~", "~">>

\* String.prototype.trim.
trim(s) == trimEnd(skipWs(s))

\* String.prototype.lastIndexOf for one character, 1-based; 0 when absent.
lastIndexOf(s, ch) ==
    IF \E i \in DOMAIN s : s[i] = ch
    THEN CHOOSE i \in DOMAIN s : s[i] = ch /\ \A j \in (i + 1)..Len(s) : s[j] # ch
    ELSE 0

\* text.replace(/^~~~(?:json)?\s*\n?/, "")
stripOpeningFence(text) ==
    IF ~startsWithAt(text, FENCE, 1) THEN text
    ELSE IF startsWithAt(text, FENCE \o <<"j", "s", "o", "n">>, 1)
    THEN skipWs(Drop(text, 7))
    ELSE skipWs(Drop(text, 3))

\* text.replace(/\n?~~~\s*$/, ""): the leftmost match is the fence that only
\* white space follows, with the line feed before it when there is one.
stripClosingFence(text) ==
    IF \E p \in DOMAIN text :
          startsWithAt(text, FENCE, p) /\ skipWs(Drop(text, p + 2)) = <<>>
    THEN LET p == CHOOSE q \in DOMAIN text :
                    startsWithAt(text, FENCE, q) /\ skipWs(Drop(text, q + 2)) = <<>>
         IN
         IF p > 1 /\ text[p - 1] = "\n" THEN Take(text, p - 2) ELSE Take(text, p - 1)
    ELSE text

stripCodeFences(text) == stripClosingFence(stripOpeningFence(text))

Extracted(text) == [threw |-> FALSE, msg |-> "", text |-> text]

ExtractionError(msg) == [threw |-> TRUE, msg |-> msg, text |-> <<>>]

\* The last lines of extractJson, on the text from its first brace:
\* lastBrace is taken over all characters, those of string literals too.
stripSuffix(cleaned, lastBrace) ==
    IF lastBrace = 0
    THEN ExtractionError("No closing brace found in response - JSON may be truncated")
    ELSE IF lastBrace < Len(cleaned) /\ trim(Drop(cleaned, lastBrace)) # <<>>
    THEN Extracted(Take(cleaned, lastBrace))
    ELSE Extracted(cleaned)

\* extractJson keeping what precedes the first opening brace.
keepPrefix(cleaned, firstBrace) ==
    IF firstBrace = 0 THEN ExtractionError("No JSON object found in response")
    ELSE stripSuffix(cleaned, lastIndexOf(cleaned, "}"))

stripPrefix(cleaned, firstBrace) ==
    IF firstBrace = 0 THEN ExtractionError("No JSON object found in response")
    ELSE stripSuffix(Drop(cleaned, firstBrace - 1),
                     lastIndexOf(Drop(cleaned, firstBrace - 1), "}"))

\* extractJson cutting at the first closing brace instead of the last.
extractJsonToFirstBrace(text) ==
    LET cleaned == stripCodeFences(trim(text))
        firstBrace == indexOf(cleaned, <<"{">>)
    IN
    IF firstBrace = 0 THEN ExtractionError("No JSON object found in response")
    ELSE stripSuffix(Drop(cleaned, firstBrace - 1),
                     indexOf(Drop(cleaned, firstBrace - 1), <<"}">>))

extractJson(text) ==
    stripPrefix(stripCodeFences(trim(text)), indexOf(stripCodeFences(trim(text)), <<"{">>))

TABLES == <<"t">>

NAME == <<"n">>

COLUMNS == <<"c">>

HTML == <<"h">>

undefined == [t |-> "undefined", s |-> <<>>, kids |-> <<>>]

\* v[key] of a parsed value: the last member of that key of an object
\* (JSON.parse keeps the last of duplicate keys); undefined when the object
\* has no such member, and for a string, a number and an array.
member(v, key) ==
    IF v.t = "object" /\ \E i \in DOMAIN v.kids : v.kids[i].k = key
    THEN v.kids[CHOOSE i \in DOMAIN v.kids :
                    /\ v.kids[i].k = key
                    /\ \A j \in (i + 1)..Len(v.kids) : v.kids[j].k # key].v
    ELSE undefined

\* Array.isArray
isArray(v) == v.t = "array"

\* !v is false
truthy(v) ==
    IF v.t = "string" THEN v.s # <<>>
    ELSE IF v.t = "number" THEN v.s # <<"0">>
    ELSE v.t \in {"array", "object"}

ParseFailure(msg, repairCalled) ==
    [threw |-> TRUE, msg |-> msg, repairCalled |-> repairCalled,
     json |-> <<>>, data |-> undefined]

Document(data, json, repairCalled) ==
    [threw |-> FALSE, msg |-> "", repairCalled |-> repairCalled,
     json |-> json, data |-> data]

\* The test of the loop over data.tables; reading a property of null
\* throws a TypeError before the test has a value.
tableThrows(table) == table.t = "null"

invalidTable(table) ==
    ~truthy(member(table, NAME)) \/ ~isArray(member(table, COLUMNS))

\* The validation of parseResponse, on the object JSON.parse returned.
validate(data, json, repairCalled) ==
    IF ~isArray(member(data, TABLES))
    THEN ParseFailure("Invalid response structure: missing or invalid 'tables' array",
                      repairCalled)
    ELSE IF member(data, HTML).t # "string"
    THEN ParseFailure("Invalid response structure: missing or invalid 'html' string",
                      repairCalled)
    ELSE
      LET tables == member(data, TABLES).kids
          bad == {i \in DOMAIN tables :
                    tableThrows(tables[i].v) \/ invalidTable(tables[i].v)}
      IN
      IF bad = {} THEN Document(data, json, repairCalled)
      ELSE IF tableThrows(tables[CHOOSE i \in bad : \A j \in bad : i <= j].v)
      THEN ParseFailure("TypeError: Cannot read properties of null (reading 'name')",
                        repairCalled)
      ELSE ParseFailure("Invalid table definition", repairCalled)

\* The catch of the failed JSON.parse of a truncated response, on what
\* repairTruncatedJson made of the extracted text.
parseRepaired(repaired) ==
    IF repaired.threw \/ ~JSONparse(repaired.text).ok
    THEN ParseFailure("Response was truncated (max_tokens) and could not be repaired",
                      TRUE)
    ELSE validate(JSONparse(repaired.text).v, repaired.text, TRUE)

\* parseExtracted calling the repairer whatever the stop reason was.
parseExtractedAlwaysRepairing(jsonStr, truncated) ==
    IF JSONparse(jsonStr).ok THEN validate(JSONparse(jsonStr).v, jsonStr, FALSE)
    ELSE parseRepaired(repairTruncatedJson(jsonStr))

\* parseResponse after extractJson returned jsonStr.
parseExtracted(jsonStr, truncated) ==
    IF JSONparse(jsonStr).ok THEN validate(JSONparse(jsonStr).v, jsonStr, FALSE)
    ELSE IF truncated THEN parseRepaired(repairTruncatedJson(jsonStr))
    ELSE ParseFailure("Failed to parse LLM response as JSON", FALSE)

\* parseResponse on the text of a response, from what extractJson made of it.
parseFrom(extracted, truncated) ==
    IF extracted.threw THEN ParseFailure(extracted.msg, FALSE)
    ELSE parseExtracted(extracted.text, truncated)

parseResponseText(text, truncated) == parseFrom(extractJson(text), truncated)

(***************************************************************************)
(* Specification of the parsing pipeline alone: raw is the text of a       *)
(* response, first a document, then possibly wrapped in code fences and    *)
(* prose, then possibly cut by the length limit; out holds what is known   *)
(* of the response (the document it was made of, the prose around it, the  *)
(* stop reason) and what parseResponse made of it.                         *)
(***************************************************************************)
\* {"h":"{}","t":[{"n":"t","c":[]}],"s":{"t":[{"c":"x"},{"c":"y"}]}}
withSeed ==
    <<"{", QUOTE, "h", QUOTE, ":", QUOTE, "{", "}", QUOTE, ",", QUOTE, "t",
      QUOTE, ":", "[", "{", QUOTE, "n", QUOTE, ":", QUOTE, "t", QUOTE, ",",
      QUOTE, "c", QUOTE, ":", "[", "]", "}", "]", ",", QUOTE, "s", QUOTE, ":",
      "{", QUOTE, "t", QUOTE, ":", "[", "{", QUOTE, "c", QUOTE, ":", QUOTE,
      "x", QUOTE, "}", ",", "{", QUOTE, "c", QUOTE, ":", QUOTE, "y", QUOTE,
      "}", "]", "}", "}">>

\*  { "t" : [ ] , "h" : "" } 
spaced ==
    <<" ", "{", " ", QUOTE, "t", QUOTE, " ", ":", " ", "[", " ", "]", " ",
      ",", " ", QUOTE, "h", QUOTE, " ", ":", " ", QUOTE, QUOTE, " ", "}",
      " ">>

\* {"t":"x","h":"a"}
tablesNotList ==
    <<"{", QUOTE, "t", QUOTE, ":", QUOTE, "x", QUOTE, ",", QUOTE, "h", QUOTE,
      ":", QUOTE, "a", QUOTE, "}">>

\* {"t":[],"h":1}
htmlNotString ==
    <<"{", QUOTE, "t", QUOTE, ":", "[", "]", ",", QUOTE, "h", QUOTE, ":", "1",
      "}">>

\* {"t":[{"n":"","c":[]}],"h":"a"}
emptyName ==
    <<"{", QUOTE, "t", QUOTE, ":", "[", "{", QUOTE, "n", QUOTE, ":", QUOTE,
      QUOTE, ",", QUOTE, "c", QUOTE, ":", "[", "]", "}", "]", ",", QUOTE, "h",
      QUOTE, ":", QUOTE, "a", QUOTE, "}">>

\* {"t":[{"n":"t","c":"x"}],"h":"a"}
columnsNotList ==
    <<"{", QUOTE, "t", QUOTE, ":", "[", "{", QUOTE, "n", QUOTE, ":", QUOTE,
      "t", QUOTE, ",", QUOTE, "c", QUOTE, ":", QUOTE, "x", QUOTE, "}", "]",
      ",", QUOTE, "h", QUOTE, ":", QUOTE, "a", QUOTE, "}">>

\* {"t":[null],"h":"a"}
nullTable ==
    <<"{", QUOTE, "t", QUOTE, ":", "[", "n", "u", "l", "l", "]", ",", QUOTE,
      "h", QUOTE, ":", QUOTE, "a", QUOTE, "}">>

\* {"h":"a"}
noTables ==
    <<"{", QUOTE, "h", QUOTE, ":", QUOTE, "a", QUOTE, "}">>

\* {"t":[{"n":"t","c":[]},{"c":[]}],"h":"a"}
noName ==
    <<"{", QUOTE, "t", QUOTE, ":", "[", "{", QUOTE, "n", QUOTE, ":", QUOTE,
      "t", QUOTE, ",", QUOTE, "c", QUOTE, ":", "[", "]", "}", ",", "{", QUOTE,
      "c", QUOTE, ":", "[", "]", "}", "]", ",", QUOTE, "h", QUOTE, ":", QUOTE,
      "a", QUOTE, "}">>

\* {"t":[],"h":"a",}
trailingComma ==
    <<"{", QUOTE, "t", QUOTE, ":", "[", "]", ",", QUOTE, "h", QUOTE, ":",
      QUOTE, "a", QUOTE, ",", "}">>

\* ok
noObject ==
    <<"o", "k">>

\* {"t":[],"h":"{}"}
htmlLast ==
    <<"{", QUOTE, "t", QUOTE, ":", "[", "]", ",", QUOTE, "h", QUOTE, ":", QUOTE,
      "{", "}", QUOTE, "}">>

WellFormedDocuments == {doc6, withSeed, spaced, htmlLast}

InvalidDocuments ==
    {tablesNotList, htmlNotString, emptyName, columnsNotList, nullTable,
     noTables, noName}

ResponseTexts ==
    WellFormedDocuments \cup InvalidDocuments \cup {trailingComma, noObject}

\* What the service writes around a document.
Prose == { <<>>, <<"o", "k">>, <<"{", "x", "}">> }

OpeningFences == { <<>>, FENCE \o <<"\n">>, FENCE \o <<"j", "s", "o", "n", "\n">> }

ClosingFences == { <<>>, <<"\n">> \o FENCE }

line(prose) == IF prose = <<>> THEN <<>> ELSE prose \o <<"\n">>

notParsed == ParseFailure("", FALSE)

InitParse ==
    /\ db = emptyDb
    /\ run = [r \in Runs |-> idleRun]
    /\ nreq = 0
    /\ usedIds = {}
    /\ raw \in ResponseTexts
    /\ out = [stage |-> "document", doc |-> raw, before |-> <<>>, after |-> <<>>,
              wasTruncated |-> FALSE, res |-> notParsed]

WrapResponse ==
    /\ out.stage = "document"
    /\ \E before \in Prose, opening \in OpeningFences,
          closing \in ClosingFences, after \in Prose :
          /\ raw' = line(before) \o opening \o raw \o closing
                        \o (IF after = <<>> THEN <<>> ELSE <<"\n">> \o after)
          /\ out' = [out EXCEPT !.stage = "wrapped", !.before = before,
                                !.after = after]
    /\ UNCHANGED <<db, run, nreq, usedIds>>

\* The response is cut off: stop_reason max_tokens.
TruncateResponse ==
    /\ out.stage \in {"document", "wrapped"}
    /\ \E n \in 0..Len(raw) : raw' = Take(raw, n)
    /\ out' = [out EXCEPT !.stage = "truncated", !.wasTruncated = TRUE]
    /\ UNCHANGED <<db, run, nreq, usedIds>>

ParseResponse ==
    /\ out.stage # "parsed"
    /\ out' = [out EXCEPT !.stage = "parsed",
                          !.res = parseResponseText(raw, out.wasTruncated)]
    /\ UNCHANGED <<db, run, nreq, usedIds, raw>>

NextParse == WrapResponse \/ TruncateResponse \/ ParseResponse

SpecParse == InitParse /\ [][NextParse]_vars

(***************************************************************************)
(* Specification of insertSeedData alone: raw is the seed-data map it is   *)
(* given, the database holds the table t with the column c and no table    *)
(* u; out is what the call made of the map.                                *)
(***************************************************************************)
SeedRows ==
    { <<>>, <<rowC>>, <<rowZ>>, <<nullRow>>, <<rowC, rowC>>, <<rowZ, rowC>>,
      <<rowC, rowZ>>, <<nullRow, rowC>> }

\* An entry of the map whose value is not a list.
NotAList(tableName) == [table |-> tableName, rows |-> <<>>, isArray |-> FALSE]

SeedEntries(tableName) ==
    {Seed(tableName, rows) : rows \in SeedRows} \cup {NotAList(tableName)}

\* The maps of at most two entries, in the order of their keys.
SeedMaps ==
    {<<>>}
        \cup {<<e>> : e \in SeedEntries(tabT) \cup SeedEntries(tabU)}
        \cup {<<e, f>> : e \in SeedEntries(tabT), f \in SeedEntries(tabU)}
        \cup {<<f, e>> : e \in SeedEntries(tabT), f \in SeedEntries(tabU)}

seedAppId == <<"1", "2", "3", "4", "-", "a">>

seedDb == createAppTables(emptyDb, seedAppId, <<Tab(tabT, <<colC>>)>>).db

notInserted == [done |-> FALSE, threw |-> FALSE, tr |-> <<>>]

InitSeed ==
    /\ db = seedDb
    /\ run = [r \in Runs |-> idleRun]
    /\ nreq = 0
    /\ usedIds = {}
    /\ raw \in SeedMaps
    /\ out = notInserted

InsertSeed ==
    /\ ~out.done
    /\ db' = insertSeedData(db, <<>>, seedAppId, raw).db
    /\ out' = [done |-> TRUE,
               threw |-> insertSeedData(db, <<>>, seedAppId, raw).threw,
               tr |-> insertSeedData(db, <<>>, seedAppId, raw).tr]
    /\ UNCHANGED <<run, nreq, usedIds, raw>>

NextSeed == InsertSeed

SpecSeed == InitSeed /\ [][NextSeed]_vars

(***************************************************************************)
(* The edit endpoints around editApp (SpecEndpoint).  raw is the request   *)
(* and what the generative service will answer to it: caller is "plain"    *)
(* (POST /api/apps/:appId/edit of the root API, which passes no progress   *)
(* consumer), "sse" (the streaming endpoint, whose consumer writes every   *)
(* event to the response stream) or "failing" (a consumer that may throw   *)
(* or reject on any event editApp awaits it on); out is what the streaming *)
(* endpoint's own catch wrote to the response stream.  The database holds  *)
(* one generated application: table t with the column c, markup "ab".      *)
(***************************************************************************)
Callers == {"plain", "sse", "failing"}

servedDb ==
    generateAppFinish(emptyDb,
                      Good(FullDoc(<<Tab(tabT, <<colC>>)>>, <<"a", "b">>, <<>>, <<>>, <<>>)),
                      seedAppId, <<"p">>).db

\* The application of the request: the generated one, or one that is unknown.
EndpointAppIds == {seedAppId, <<"0">>}

EditRequests ==
    [caller : Callers, appId : EndpointAppIds, fast : FastResponses,
     full : EditResponses]

InitEndpoint ==
    /\ db = servedDb
    /\ run = [r \in Runs |-> idleRun]
    /\ nreq = 0
    /\ usedIds = {seedAppId}
    /\ raw \in EditRequests
    /\ out = <<>>

\* await editApp(appId, description, client[, consumer])
EndpointEdit ==
    /\ run[1].pc = "idle"
    /\ Set(1, editBegin(db, raw.appId, raw.caller # "plain"))
    /\ nreq' = nreq + 1
    /\ UNCHANGED <<usedIds, raw, out>>

EndpointFastResponse ==
    /\ run[1].kind = "edit" /\ run[1].pc = "fast_wait"
    /\ Set(1, editOnFastResponse(run[1], db, raw.fast))
    /\ UNCHANGED <<nreq, usedIds, raw, out>>

EndpointFullResponse ==
    /\ run[1].kind = "edit" /\ run[1].pc = "full_wait"
    /\ Set(1, editOnFullResponse(run[1], db, raw.full))
    /\ UNCHANGED <<nreq, usedIds, raw, out>>

\* An awaited onProgress(...) throws or rejects.  On the 'complete' event of
\* the fast phase (no full request has been issued) the await stands inside
\* the try around editAppFast, whose catch logs the error and goes on to the
\* fallback; everywhere else the error reaches the catch of editApp.
editConsumerFails(rr, d) ==
    IF rr.pc = "complete" /\ \A i \in DOMAIN rr.tr : rr.tr[i] # Request("full")
    THEN editFallback(rr, d)
    ELSE editFail(rr, d, "consumer failed")

ConsumerFails ==
    /\ raw.caller = "failing"
    /\ run[1].kind = "edit"
    /\ run[1].pc \in {"analyzing", "generating", "fallback", "applying", "complete"}
    /\ Set(1, editConsumerFails(run[1], db))
    /\ UNCHANGED <<nreq, usedIds, raw, out>>

\* catch (e) { await stream.writeSSE({event: "error", ...}) } of the
\* streaming endpoint.
EndpointCatch ==
    /\ raw.caller = "sse"
    /\ run[1].kind = "edit" /\ run[1].pc = "error"
    /\ out = <<>>
    /\ out' = <<Event("error", run[1].msg)>>
    /\ UNCHANGED <<db, run, nreq, usedIds, raw>>

NextEndpoint ==
    \/ EndpointEdit
    \/ EditAfterAnalyzing(1)
    \/ EditAfterGenerating(1)
    \/ StreamProgress(1)
    \/ EndpointFastResponse
    \/ EditAfterFallback(1)
    \/ EndpointFullResponse
    \/ EditApply(1)
    \/ EditReturn(1)
    \/ ConsumerFails
    \/ EndpointCatch

SpecEndpoint == InitEndpoint /\ [][NextEndpoint]_vars

(***************************************************************************)
(* One edit request whose awaits all resume: every awaited call of the     *)
(* progress consumer returns, and each request to the generative service   *)
(* is answered, with a message or with an error.  That a run suspended at  *)
(* an await is resumed is weak fairness of the resuming steps; no          *)
(* token-progress event has to be emitted.                                 *)
(***************************************************************************)
LiveFullResponses ==
    FailingResponses \cup { Good(doc) : doc \in invalidDocs }
    \cup { Good(FullDoc(tb, <<"a", "b">>, <<>>, <<>>, <<>>)) : tb \in TablesChoices }
    \cup { Repaired(FullDoc(<<Tab(tabT, <<colC>>)>>, <<"b">>, <<>>, <<>>, <<>>)),
           Good(FullDoc(<<Tab(tabT, <<colC>>)>>, <<"b">>, <<Seed(tabT, <<rowC>>)>>,
                        <<>>, <<>>)),
           Good(FullDoc(<<Tab(tabT, <<colC>>)>>, <<"b">>, <<>>, <<>>,
                        <<NewCols(tabT, <<colD>>)>>)) }

InitLive ==
    /\ db = servedDb
    /\ run = [r \in Runs |-> idleRun]
    /\ nreq = 0
    /\ usedIds = {seedAppId}
    /\ raw \in [caller : {"plain", "sse"}, appId : EndpointAppIds,
                fast : FastResponses, full : LiveFullResponses]
    /\ out = <<>>

Resumes ==
    \/ EditAfterAnalyzing(1)
    \/ EditAfterGenerating(1)
    \/ EndpointFastResponse
    \/ EditAfterFallback(1)
    \/ EndpointFullResponse
    \/ EditApply(1)
    \/ EditReturn(1)

NextLive == EndpointEdit \/ Resumes \/ StreamProgress(1) \/ EndpointCatch

SpecLive == InitLive /\ [][NextLive]_vars /\ WF_vars(Resumes)

\* The same request with a consumer that need not return: a promise the
\* consumer gives back may stay pending (a client that does not read its
\* event stream), so a run suspended at an awaited consumer call need not
\* resume.  The generative service still answers every request.
ServiceAnswers == EndpointFastResponse \/ EndpointFullResponse

SpecSlowConsumer == InitLive /\ [][NextLive]_vars /\ WF_vars(ServiceAnswers)

(***************************************************************************)
(* Two edits of one application at a time (SpecConcurrent): each run of    *)
(* Runs is one editApp call on the generated application of servedDb,      *)
(* without a consumer; the two interleave at their awaits.                 *)
(***************************************************************************)
InitConcurrent ==
    /\ db = servedDb
    /\ run = [r \in Runs |-> idleRun]
    /\ nreq = 0
    /\ usedIds = {seedAppId}
    /\ raw = <<>>
    /\ out = <<>>

ConcurrentEdit(r) ==
    /\ run[r].pc = "idle"
    /\ Set(r, editBegin(db, seedAppId, FALSE))
    /\ nreq' = nreq + 1
    /\ UNCHANGED <<usedIds, raw, out>>

NextConcurrent ==
    \E r \in Runs : ConcurrentEdit(r) \/ FastResponse(r) \/ FullResponse(r)

SpecConcurrent == InitConcurrent /\ [][NextConcurrent]_vars

(***************************************************************************)
(* The addition of new columns, statement by statement, with a crash       *)
(* (SpecCrash).  raw is the newColumns map of a document; the database     *)
(* holds the generated application of servedDb (table t with column c, no  *)
(* table u).  Every db.exec commits on its own, so the process can stop    *)
(* between any two statements; the reconciliation is then run again from   *)
(* its start.  out is the position of the first run, then the outcome of   *)
(* the second.                                                             *)
(***************************************************************************)
ColumnLists ==
    {<<>>} \cup {<<a>> : a \in {colC, colD, colBad}}
           \cup {<<a, b>> : a, b \in {colC, colD, colBad}}

\* The maps of at most two entries, in the order of their keys.
CrashColumns ==
    {<<NewCols(tabT, cs)>> : cs \in ColumnLists}
        \cup {<<NewCols(tabT, cs), NewCols(tabU, <<colD>>)>> : cs \in ColumnLists}
        \cup {<<NewCols(tabU, <<colD>>), NewCols(tabT, cs)>> : cs \in ColumnLists}

\* The addColumnToTable calls of the two nested loops, in order.
RECURSIVE columnsToAdd(_)
columnsToAdd(newColumns) ==
    IF newColumns = <<>> THEN <<>>
    ELSE [i \in DOMAIN Head(newColumns).cols |->
            [table |-> Head(newColumns).table, col |-> Head(newColumns).cols[i]]]
         \o columnsToAdd(Tail(newColumns))

Position(stage, next, altered, threw) ==
    [stage |-> stage, next |-> next, altered |-> altered, threw |-> threw]

InitCrash ==
    /\ db = servedDb
    /\ run = [r \in Runs |-> idleRun]
    /\ nreq = 0
    /\ usedIds = {seedAppId}
    /\ raw \in CrashColumns
    /\ out = Position("running", 1, FALSE, FALSE)

\* db.exec(ALTER TABLE ... ADD COLUMN ...) of addColumnToTable: when it
\* fails the catch returns and the loop goes on to the next column.
AlterTable ==
    /\ out.stage = "running" /\ ~out.altered
    /\ out.next <= Len(columnsToAdd(raw))
    /\ LET c == columnsToAdd(raw)[out.next]
           ftn == fullTableName(seedAppId, c.table)
       IN IF alterTableFails(db, ftn, c.col)
          THEN /\ db' = db
               /\ out' = [out EXCEPT !.next = @ + 1]
          ELSE /\ db' = [db EXCEPT !.tables[ftn] = Append(@, storedColumn(c.col))]
               /\ out' = [out EXCEPT !.altered = TRUE]
    /\ UNCHANGED <<run, nreq, usedIds, raw>>

\* getAppSchema, existing.push(col), db.exec(UPDATE app_schemas ...).
UpdateSchema ==
    /\ out.stage = "running" /\ out.altered
    /\ LET c == columnsToAdd(raw)[out.next]
           key == <<seedAppId, c.table>>
       IN db' = IF hasAppSchema(db, seedAppId, c.table)
                THEN [db EXCEPT !.app_schemas[key] =
                                   Append(getAppSchema(db, seedAppId, c.table), c.col)]
                ELSE db
    /\ out' = [out EXCEPT !.next = @ + 1, !.altered = FALSE]
    /\ UNCHANGED <<run, nreq, usedIds, raw>>

\* The loops are through.
Finish ==
    /\ out.stage = "running" /\ out.next > Len(columnsToAdd(raw))
    /\ out' = [out EXCEPT !.stage = "done"]
    /\ UNCHANGED <<db, run, nreq, usedIds, raw>>

\* The process stops somewhere inside the addition of the columns.
Crash ==
    /\ out.stage = "running" /\ out.next <= Len(columnsToAdd(raw))
    /\ out' = [out EXCEPT !.stage = "crashed"]
    /\ UNCHANGED <<db, run, nreq, usedIds, raw>>

\* The same reconciliation, run again to its end.
Rerun ==
    /\ out.stage = "crashed"
    /\ db' = addNewColumns(db, <<>>, seedAppId, raw).db
    /\ out' = [out EXCEPT !.stage = "rerun",
                          !.threw = addNewColumns(db, <<>>, seedAppId, raw).threw]
    /\ UNCHANGED <<run, nreq, usedIds, raw>>

NextCrash == AlterTable \/ UpdateSchema \/ Finish \/ Crash \/ Rerun

SpecCrash == InitCrash /\ [][NextCrash]_vars

(***************************************************************************)
(* The row API (src/crud.ts): one request that creates or updates a row of *)
(* a served application.  raw is the request, out the response.  A value   *)
(* of a body is given by its typeof ("null" for a JSON null); the body is  *)
(* the list of its (key, value) cells.                                     *)
(***************************************************************************)
\* String.prototype.toUpperCase on a declared type.
toUpperCase(colType) ==
    CASE colType \in {"TEXT", "text"} -> "TEXT"
      [] colType \in {"INTEGER", "integer"} -> "INTEGER"
      [] colType \in {"REAL", "real"} -> "REAL"
      [] colType \in {"BOOLEAN", "boolean"} -> "BOOLEAN"
      [] OTHER -> colType

hasCell(row, key) == \E i \in DOMAIN row.cells : row.cells[i][1] = key

cellValue(row, key) ==
    row.cells[CHOOSE i \in DOMAIN row.cells : row.cells[i][1] = key][2]

\* The column rejects the value: a value that is absent or null is not
\* checked, and a TEXT column takes any value.
typeError(col, data) ==
    /\ hasCell(data, col.name)
    /\ cellValue(data, col.name) # "null"
    /\ \/ /\ toUpperCase(col.type) \in {"INTEGER", "BOOLEAN"}
          /\ cellValue(data, col.name) \notin {"number", "boolean"}
       \/ /\ toUpperCase(col.type) = "REAL"
          /\ cellValue(data, col.name) # "number"

\* validateRowData: valid when no column rejects its value.
validateRowData(columns, data) ==
    \A i \in DOMAIN columns : ~typeError(columns[i], data)

\* resolveTable: null without the application or without its registry entry.
resolveTable(d, appId, table) == getApp(d, appId) /\ hasAppSchema(d, appId, table)

\* for (const [k, v] of Object.entries(body)) if (columnNames.has(k)) ...
filtered(columns, body) ==
    Row(SelectSeq(body.cells, LAMBDA cell : cell[1] \in columnNames(columns)))

\* getRow: the identifier of a row is its position in the table.
getRow(d, ftn, id) == ftn \in DOMAIN d.rows /\ id \in DOMAIN d.rows[ftn]

\* UPDATE "ftn" SET <keys> WHERE id = ?: nothing without keys; fails for a
\* key that is not a column.
updateRow(d, ftn, id, data) ==
    IF data.cells = <<>> THEN Ok(d)
    ELSE IF ~(rowKeys(data) \subseteq columnNames(d.tables[ftn])) THEN Threw(d, "SqliteError")
    ELSE Ok([d EXCEPT !.rows[ftn][id] =
               Row(SelectSeq(@.cells, LAMBDA cell : cell[1] \notin rowKeys(data))
                     \o data.cells)])

Response(status) == [done |-> TRUE, status |-> status]

\* POST /api/apps/:appId/tables/:table
postRow(d, appId, table, body) ==
    IF ~resolveTable(d, appId, table) THEN [db |-> d, status |-> 404]
    ELSE IF ~validateRowData(getAppSchema(d, appId, table), body)
    THEN [db |-> d, status |-> 400]
    ELSE LET r == insertRow(d, getFullTableName(appId, table),
                            filtered(getAppSchema(d, appId, table), body))
         IN [db |-> r.db, status |-> IF r.threw THEN 400 ELSE 201]

\* PUT /api/apps/:appId/tables/:table/:id
putRow(d, appId, table, id, body) ==
    IF ~resolveTable(d, appId, table) THEN [db |-> d, status |-> 404]
    ELSE IF ~getRow(d, getFullTableName(appId, table), id)
    THEN [db |-> d, status |-> 404]
    ELSE LET r == updateRow(d, getFullTableName(appId, table), id,
                            filtered(getAppSchema(d, appId, table), body))
         IN [db |-> r.db, status |-> IF r.threw THEN 400 ELSE 200]

colN == Col(<<"n">>, "INTEGER")
colB == Col(<<"b">>, "boolean")
colR == Col(<<"r">>, "REAL")

\* An application with one table of an INTEGER, a BOOLEAN, a REAL and a
\* TEXT column, holding one row.
crudDb ==
    insertRow(
        generateAppFinish(emptyDb,
            Good(FullDoc(<<Tab(tabT, <<colN, colB, colR, colC>>)>>, <<"a">>, <<>>, <<>>, <<>>)),
            seedAppId, <<"p">>).db,
        fullTableName(seedAppId, tabT),
        Row(<< <<(<<"n">>), "number">>, <<(<<"c">>), "string">> >>)).db

BodyKeys == {<<"n">>, <<"b">>, <<"r">>, <<"c">>, <<"z">>}

BodyValues == {"number", "string", "boolean", "null"}

\* The bodies of at most two cells.
Bodies ==
    {Row(<<>>)}
    \cup {Row(<< <<k, v>> >>) : k \in BodyKeys, v \in BodyValues}
    \cup {Row(<<p[1], p[2]>>) :
             p \in {q \in (BodyKeys \X BodyValues) \X (BodyKeys \X BodyValues) :
                      q[1][1] # q[2][1]}}

RowRequests ==
    [method : {"POST", "PUT"}, appId : EndpointAppIds, table : {tabT, tabU},
     id : {1, 2}, body : Bodies]

InitCrud ==
    /\ db = crudDb
    /\ run = [r \in Runs |-> idleRun]
    /\ nreq = 0
    /\ usedIds = {seedAppId}
    /\ raw \in RowRequests
    /\ out = [done |-> FALSE, status |-> 0]

CrudPost ==
    /\ ~out.done /\ raw.method = "POST"
    /\ db' = postRow(db, raw.appId, raw.table, raw.body).db
    /\ out' = Response(postRow(db, raw.appId, raw.table, raw.body).status)
    /\ UNCHANGED <<run, nreq, usedIds, raw>>

CrudPut ==
    /\ ~out.done /\ raw.method = "PUT"
    /\ db' = putRow(db, raw.appId, raw.table, raw.id, raw.body).db
    /\ out' = Response(putRow(db, raw.appId, raw.table, raw.id, raw.body).status)
    /\ UNCHANGED <<run, nreq, usedIds, raw>>

NextCrud == CrudPost \/ CrudPut

SpecCrud == InitCrud /\ [][NextCrud]_vars

(***************************************************************************)
(* Properties                                                              *)
(***************************************************************************)
isCall(e, names) == e.k = "call" /\ e.name \in names

isEvent(e, step) == e.k = "event" /\ e.name = step

isRequest(e, mode) == e.k = "request" /\ e.name = mode

countRequests(tr, mode) ==
    Cardinality({i \in DOMAIN tr : isRequest(tr[i], mode)})

names(cols) == [i \in DOMAIN cols |-> cols[i].name]

\* a is b with some elements left out.
RECURSIVE isSubsequence(_, _)
isSubsequence(a, b) ==
    IF a = <<>> THEN TRUE
    ELSE IF b = <<>> THEN FALSE
    ELSE IF Head(a) = Head(b) THEN isSubsequence(Tail(a), Tail(b))
    ELSE isSubsequence(a, Tail(b))

\* C1: schema changes are append-only while an application is not deleted:
\* every step keeps every (table, column) pair of the SchemaRegistry and
\* the relative order of the columns recorded for a table.
C1_SchemaAppendOnly ==
    [][\A key \in DOMAIN db.app_schemas :
         ~(key[1] \in DOMAIN db.apps /\ key[1] \notin DOMAIN db'.apps)
         => /\ key \in DOMAIN db'.app_schemas
            /\ isSubsequence(names(db.app_schemas[key]),
                             names(db'.app_schemas[key]))]_vars

C3_FastAndFallbackNeverBothWrite ==
    \A r \in Runs :
        /\ run[r].kind = "edit"
        /\ \E i \in DOMAIN run[r].tr : isRequest(run[r].tr[i], "full")
        => ~run[r].fastWrote

RECURSIVE somePatchMisses(_, _)
somePatchMisses(text, patches) ==
    /\ patches # <<>>
    /\ ~isNull(Head(patches))
    /\ \/ ~includes(text, Head(patches).search)
       \/ somePatchMisses(replace(text, Head(patches).search, Head(patches).replace),
                          Tail(patches))

fastPatches(r) == run[r].fastResp.text.data.patches

\* The fast response of run r has been parsed into a document with a
\* patches list.
fastParsed(r) ==
    /\ run[r].hasFastResp
    /\ ~run[r].fastResp.failed /\ run[r].fastResp.blockType = "text"
    /\ run[r].fastResp.text.extracts /\ run[r].fastResp.text.parses
    /\ run[r].fastResp.text.data.patchesIsArray

\* C5: applyPatches is all-or-nothing: if some patch's search text is absent
\* from the text it is applied to, the result is null, the markup is
\* unchanged and editAppFast has made no storage call.
C5_PatchesAllOrNothing ==
    \A r \in Runs :
        fastParsed(r) /\ somePatchMisses(run[r].html, fastPatches(r))
        => /\ ~applyPatches(run[r].html, fastPatches(r)).applied
           /\ run[r].fast = "null"
           /\ run[r].fastTr = <<>>
           /\ db = run[r].start
           /\ db.apps[run[r].appId] = run[r].html

\* The first patch applies, the second one misses.
C5_Witness ==
    \E r \in Runs :
        /\ fastParsed(r) /\ Len(fastPatches(r)) = 2
        /\ ~isNull(fastPatches(r)[1])
        /\ includes(run[r].html, fastPatches(r)[1].search)
        /\ somePatchMisses(run[r].html, fastPatches(r))
        /\ run[r].fast = "null"

occurrences(text, search) ==
    Cardinality({i \in 1..Len(text) : startsWithAt(text, search, i)})

\* The text after the first n patches, each replacing the first occurrence
\* of its search text.
RECURSIVE patchedUpTo(_, _, _)
patchedUpTo(text, patches, n) ==
    IF n = 0 THEN text
    ELSE replace(patchedUpTo(text, patches, n - 1), patches[n].search,
                 patches[n].replace)

spliceFirst(text, search, repl) ==
    Take(text, indexOf(text, search) - 1) \o repl
        \o Drop(text, indexOf(text, search) - 1 + Len(search))

\* The text after the first n patches, each matched against the text the
\* patches before it produced.
RECURSIVE splicedUpTo(_, _, _)
splicedUpTo(text, patches, n) ==
    IF n = 0 THEN text
    ELSE spliceFirst(splicedUpTo(text, patches, n - 1), patches[n].search,
                     patches[n].replace)

\* C31: a successful patch replaces the first occurrence of its search text
\* with its replace text and leaves every other occurrence in place, and
\* each later patch is matched against the text the earlier patches
\* produced: the result of applyPatches is the markup with the patches
\* spliced in, in list order.
C31_FirstOccurrenceReplacedByReplaceText ==
    \A r \in Runs :
        fastParsed(r) /\ applyPatches(run[r].html, fastPatches(r)).applied
        => applyPatches(run[r].html, fastPatches(r)).html
             = splicedUpTo(run[r].html, fastPatches(r), Len(fastPatches(r)))

\* The identifier pattern: lowercase alphanumeric plus underscore.
identChars == alnum \cup {"_"}

isIdentifier(name) == name # <<>> /\ \A i \in DOMAIN name : name[i] \in identChars

\* C7: every table name and column name passed to createAppTables,
\* addColumnToTable or insertRow matches the identifier pattern.
C7_NamesValidatedBeforePersistence ==
    \A r \in Runs : \A i \in DOMAIN run[r].tr :
        LET e == run[r].tr[i] IN
        /\ isCall(e, {"createAppTables"})
           => \A t \in DOMAIN e.tables :
                /\ isIdentifier(e.tables[t].name)
                /\ \A c \in DOMAIN e.tables[t].columns :
                     isIdentifier(e.tables[t].columns[c].name)
        /\ isCall(e, {"addColumnToTable"})
           => isIdentifier(e.table) /\ (isNull(e.col) \/ isIdentifier(e.col.name))
        /\ isCall(e, {"insertRow"}) => isIdentifier(e.table)

\* C8: no markup passed to saveApp or updateAppHtml contains the
\* application-identifier placeholder.
C8_NoPlaceholderPersisted ==
    \A r \in Runs : \A i \in DOMAIN run[r].tr :
        isCall(run[r].tr[i], {"saveApp", "updateAppHtml"})
        => ~includes(run[r].tr[i].html, APP_ID_PLACEHOLDER)

\* A markup with two placeholders was persisted with both replaced.
C8_Witness ==
    \E r \in Runs : \E i \in DOMAIN run[r].tr :
        /\ isCall(run[r].tr[i], {"saveApp", "updateAppHtml"})
        /\ run[r].tr[i].html = run[r].appId \o <<"a">> \o run[r].appId

candidateTables == {tabT, tabU, tabBad}

candidateColumns == {colC, colD, colBad}

\* C9: addColumnToTable is idempotent: after an invocation that raised no
\* error, a second one with the same arguments raises none and changes
\* neither the storage table nor the SchemaRegistry entry.
C9_AddColumnIdempotent ==
    \A appId \in AppIds, t \in candidateTables, col \in candidateColumns :
        LET first == addColumnToTable(db, appId, t, col) IN
        ~first.threw
        => LET second == addColumnToTable(first.db, appId, t, col) IN
           ~second.threw /\ second.db = first.db

\* One run added the same column twice; storage and registry hold it once.
C9_Witness ==
    \E r \in Runs : \E i, j \in DOMAIN run[r].tr :
        /\ i < j
        /\ isCall(run[r].tr[i], {"addColumnToTable"})
        /\ run[r].tr[j] = run[r].tr[i]
        /\ ~isNull(run[r].tr[i].col)
        /\ hasAppSchema(db, run[r].appId, run[r].tr[i].table)
        /\ hasAppSchema(run[r].start, run[r].appId, run[r].tr[i].table)
        /\ run[r].tr[i].col.name
             \notin columnNames(getAppSchema(run[r].start, run[r].appId, run[r].tr[i].table))
        /\ Cardinality({n \in DOMAIN getAppSchema(db, run[r].appId, run[r].tr[i].table) :
                          getAppSchema(db, run[r].appId, run[r].tr[i].table)[n]
                            = run[r].tr[i].col}) = 1

isPrefix(a, b) == Len(a) <= Len(b) /\ Take(b, Len(a)) = a

\* The quote at position i delimits a string: it is not escaped.
RECURSIVE backslashesBefore(_, _)
backslashesBefore(text, i) ==
    IF i > 1 /\ text[i - 1] = BACKSLASH THEN 1 + backslashesBefore(text, i - 1) ELSE 0

balancedQuotes(text) ==
    Cardinality({i \in DOMAIN text :
                   text[i] = QUOTE /\ backslashesBefore(text, i) % 2 = 0}) % 2 = 0

cutAfterCloser(text) == text # <<>> /\ text[Len(text)] \in {"}", "]"}

\* Every key and value of a occurs at the same place in b.
RECURSIVE isStructuralSubset(_, _)
isStructuralSubset(a, b) ==
    /\ a.t = b.t
    /\ a.s = b.s
    /\ Len(a.kids) <= Len(b.kids)
    /\ \A i \in DOMAIN a.kids :
         /\ a.kids[i].k = b.kids[i].k
         /\ isStructuralSubset(a.kids[i].v, b.kids[i].v)

\* C10: for every text with balanced quotes that is a prefix of a valid
\* document and ends right after a closing brace or bracket,
\* repairTruncatedJson returns text that parses and whose structure is a
\* subset of the document's: each key and value of the result is at the same
\* place in the document.
C10_RepairReturnsSubsetOfDocument ==
    out.done
    => \A doc \in Documents :
         isPrefix(raw, doc) /\ balancedQuotes(raw) /\ cutAfterCloser(raw)
         => /\ ~out.threw
            /\ JSONparse(out.text).ok
            /\ JSONparse(doc).ok
            /\ isStructuralSubset(JSONparse(out.text).v, JSONparse(doc).v)

\* A document cut two levels deep, after a closer that follows a string
\* holding a closer: the repairer closed both levels.
C10_Witness ==
    /\ out.done /\ ~out.threw
    /\ isPrefix(raw, doc2) /\ balancedQuotes(raw) /\ cutAfterCloser(raw)
    /\ Len(out.text) = Len(raw) + 2
    /\ \E i \in DOMAIN raw : raw[i] = "}" /\ i < Len(raw) /\ raw[i - 1] = QUOTE

\* C40: repairTruncatedJson returns a text that already parses as it is,
\* and is idempotent: applied to a text it has returned, it returns that
\* text unchanged.
C40_RepairIsIdempotent ==
    out.done
    => /\ JSONparse(raw).ok => out = Returned(raw)
       /\ ~out.threw => repairTruncatedJson(out.text) = Returned(out.text)

\* A text that does not parse was repaired into another text, which the
\* repairer returns as it is.
C40_Witness ==
    /\ out.done /\ ~out.threw
    /\ ~JSONparse(raw).ok /\ out.text # raw
    /\ Len(out.text) > Len(raw)
    /\ repairTruncatedJson(out.text) = Returned(out.text)

\* Where the character at position i of text stands: outside string
\* literals ("out"), inside one ("in"), or right after a backslash in one
\* ("esc").
RECURSIVE mode(_, _)
mode(text, i) ==
    IF i = 1 THEN "out"
    ELSE LET m == mode(text, i - 1)
             ch == text[i - 1]
         IN IF m = "esc" THEN "in"
            ELSE IF m = "in"
            THEN IF ch = BACKSLASH THEN "esc" ELSE IF ch = QUOTE THEN "out" ELSE "in"
            ELSE IF ch = QUOTE THEN "in" ELSE "out"

closerOf(ch) == IF ch = "{" THEN "}" ELSE "]"

\* The positions of the braces and brackets that the first k characters of
\* text open and do not close, outermost first.  A closer closes the
\* innermost open structure when it is of its kind, and nothing otherwise.
RECURSIVE opens(_, _)
opens(text, k) ==
    IF k = 0 THEN <<>>
    ELSE LET o == opens(text, k - 1) IN
         IF mode(text, k) # "out" THEN o
         ELSE IF text[k] \in {"{", "["} THEN Append(o, k)
         ELSE IF /\ text[k] \in {"}", "]"} /\ o # <<>>
                 /\ closerOf(text[o[Len(o)]]) = text[k]
         THEN Take(o, Len(o) - 1)
         ELSE o

\* The character at position k closes a structure.
closesAt(text, k) == Len(opens(text, k)) < Len(opens(text, k - 1))

\* The closers of the structures open after k characters, innermost first.
closersAt(text, k) ==
    [j \in 1..Len(opens(text, k)) |->
        closerOf(text[opens(text, k)[Len(opens(text, k)) + 1 - j]])]

repairedFromUnparsable == out.done /\ ~out.threw /\ ~JSONparse(raw).ok

\* C30: when repairTruncatedJson returns a text for an input that does not
\* parse, the text is the input up to and including the last closer outside
\* string literals that closed the innermost open structure, followed by
\* one closer for each structure open at that position, innermost first,
\* and by nothing else.
C30_RepairIsPrefixPlusClosers ==
    repairedFromUnparsable
    => \E k \in 1..Len(raw) :
         /\ closesAt(raw, k)
         /\ \A j \in (k + 1)..Len(raw) : ~closesAt(raw, j)
         /\ out.text = Take(raw, k) \o closersAt(raw, k)

\* A text cut inside a value, after a closed structure, two levels deep: the
\* repairer dropped what follows the last closer and appended a bracket and
\* a brace.
C30_Witness ==
    /\ repairedFromUnparsable
    /\ \E k \in 1..(Len(raw) - 2) :
         /\ closesAt(raw, k)
         /\ \A j \in (k + 1)..Len(raw) : ~closesAt(raw, j)
         /\ \E j \in (k + 1)..Len(raw) : raw[j] \in {"{", "["}
         /\ closersAt(raw, k) = <<"]", "}">>
         /\ out.text = Take(raw, k) \o <<"]", "}">>

\* C18: the fast attempt never creates tables: whatever the newTables of
\* its response holds, the step that receives the response makes no
\* createAppTables call and adds no table to storage or to the
\* SchemaRegistry.
C18_FastAttemptCreatesNoTable ==
    [][\A r \in Runs :
         run[r].pc = "fast_wait" /\ run'[r].pc # "fast_wait" =>
            /\ \A i \in DOMAIN run'[r].fastTr :
                  ~isCall(run'[r].fastTr[i], {"createAppTables"})
            /\ DOMAIN db'.tables = DOMAIN db.tables
            /\ DOMAIN db'.app_schemas = DOMAIN db.app_schemas]_vars

\* A fast attempt that completed the edit on a response naming a new table.
C18_Witness ==
    \E r \in Runs :
        /\ run[r].pc = "done" /\ run[r].hasFastResp /\ run[r].fast = "true"
        /\ ~run[r].fastResp.failed
        /\ run[r].fastResp.text.data.newTables # <<>>
        /\ \E i \in DOMAIN run[r].fastTr : isCall(run[r].fastTr[i], {"addColumnToTable"})

\* The storage table and the SchemaRegistry entry of a table, with whether
\* each exists.
tableState(d, appId, tableName) ==
    [stored |-> fullTableName(appId, tableName) \in DOMAIN d.tables,
     columns |-> IF fullTableName(appId, tableName) \in DOMAIN d.tables
                 THEN d.tables[fullTableName(appId, tableName)] ELSE <<>>,
     recorded |-> hasAppSchema(d, appId, tableName),
     schema |-> getAppSchema(d, appId, tableName)]

\* The document names the table in newTables, newColumns or seedData.
namedIn(entries, tableName) == \E i \in DOMAIN entries : entries[i].table = tableName

\* C19: in the fallback phase table creation touches only the tables that
\* newTables lists: a table the document describes without listing it (and
\* without new columns or seed rows for it, which later steps apply) has
\* the same storage table and the same SchemaRegistry entry after the step
\* that applies the document as before it.
C19_OnlyListedTablesAreCreated ==
    [][\A r \in Runs :
         run[r].pc = "applying" /\ run'[r].pc # "applying" =>
            \A i \in DOMAIN run[r].resp.text.data.tables :
               LET data == run[r].resp.text.data
                   tableName == data.tables[i].name
               IN
               /\ \A j \in DOMAIN data.newTables : data.newTables[j] # tableName
               /\ ~namedIn(data.newColumns, tableName)
               /\ ~namedIn(data.seedData, tableName)
               => tableState(db', run[r].appId, tableName)
                     = tableState(db, run[r].appId, tableName)]_vars

\* An edit completed by a fallback that created the one table u out of a
\* document describing the existing table t as well.
C19_Witness ==
    \E r \in Runs :
        /\ run[r].kind = "edit" /\ run[r].pc = "done" /\ run[r].consumer
        /\ tableState(db, run[r].appId, tabT).stored
        /\ tableState(db, run[r].appId, tabU).stored
        /\ \E i \in DOMAIN run[r].tr :
              /\ isCall(run[r].tr[i], {"createAppTables"})
              /\ names(run[r].tr[i].tables) = <<tabU>>

\* The fast response of run r parsed, with a patches list of patches that
\* have a search text, and without new columns and seed data.
patchesOnly(r) ==
    /\ run[r].kind = "edit" /\ fastParsed(r)
    /\ \A i \in DOMAIN fastPatches(r) :
          ~isNull(fastPatches(r)[i]) /\ fastPatches(r)[i].search # <<>>
    /\ run[r].fastResp.text.data.newColumns = <<>>
    /\ run[r].fastResp.text.data.seedData = <<>>

\* The edit of run r was completed by the fast attempt alone: one
\* updateAppHtml call, with the patched markup in which the placeholders
\* are substituted, no request for a full regeneration and no schema call.
completedByPatches(r) ==
    /\ run[r].pc \in {"complete", "done"}
    /\ Cardinality({i \in DOMAIN run[r].tr : isCall(run[r].tr[i], {"updateAppHtml"})}) = 1
    /\ \A i \in DOMAIN run[r].tr :
          /\ isCall(run[r].tr[i], {"updateAppHtml"}) =>
                run[r].tr[i].html
                   = substituteAppId(patchedUpTo(run[r].html, fastPatches(r),
                                                 Len(fastPatches(r))),
                                     run[r].appId)
          /\ ~isCall(run[r].tr[i], {"createAppTables", "addColumnToTable"})
    /\ countRequests(run[r].tr, "full") = 0

C23_FailedGenerateLeavesNoRecord ==
    \A r \in Runs :
        run[r].kind = "generate" =>
            /\ run[r].pc = "done" =>
                  /\ getApp(db, run[r].appId)
                  /\ \E c \in db.app_credentials : c.app_id = run[r].appId
            /\ run[r].pc = "error" => ~getApp(db, run[r].appId)

\* The rows of the seed data of a document for one table that can be
\* inserted: objects with at least one key, all keys being the identity
\* column or declared columns of the table.
validSeedRows(data, table) ==
    LET entries == SelectSeq(data.seedData, LAMBDA e : e.isArray /\ e.table = table.name)
        valid(row) == /\ ~isNull(row) /\ row.cells # <<>>
                      /\ rowKeys(row) \subseteq {idColumn.name} \cup columnNames(table.columns)
    IN IF entries = <<>> THEN <<>> ELSE SelectSeq(entries[1].rows, valid)

\* The persisted application is the one the document declares.
generatedAsDeclared(d, data, appId) ==
    /\ \A i \in DOMAIN data.tables :
          LET table == data.tables[i]
              ts == tableState(d, appId, table.name)
          IN /\ ts.stored
             /\ names(ts.columns) = <<idColumn.name>> \o names(table.columns)
             /\ ts.recorded
             /\ ts.schema = table.columns
             /\ d.rows[fullTableName(appId, table.name)] = validSeedRows(data, table)
    /\ getApp(d, appId)
    /\ d.apps[appId] = replaceAll(data.html, APP_ID_PLACEHOLDER, appId)
    /\ ~includes(d.apps[appId], APP_ID_PLACEHOLDER)

\* C24: after a successful generateApp every table of the document has its
\* storage table, namespaced by the application identifier, with the
\* identity column followed by exactly the declared columns; the
\* SchemaRegistry entry is the declared column list; the rows of the table
\* are the valid seed rows, each once; and the persisted markup is the
\* document's with every placeholder replaced by the identifier.
C24_GeneratedAppIsAsDeclared ==
    [][\A r \in Runs :
         run[r].kind = "generate" /\ run[r].pc = "create_wait" /\ run'[r].pc = "done" =>
            \A resp \in CreateResponses :
               /\ ~generateAppFinish(db, resp, run'[r].appId, run[r].title).threw
               /\ generateAppFinish(db, resp, run'[r].appId, run[r].title).db = db'
               => generatedAsDeclared(db', resp.text.data, run'[r].appId)]_vars

\* The place of a step in the order of the fallback phase; 0 for the steps
\* the order says nothing about.
stepRank(e) ==
    IF isCall(e, {"createAppTables"}) THEN 1
    ELSE IF isCall(e, {"addColumnToTable"}) THEN 2
    ELSE IF isCall(e, {"insertRow"}) THEN 3
    ELSE IF isCall(e, {"updateAppHtml"}) THEN 4
    ELSE IF isEvent(e, "complete") THEN 5
    ELSE 0

inOrder(steps) ==
    \A i, j \in DOMAIN steps :
        i < j /\ stepRank(steps[i]) > 0 /\ stepRank(steps[j]) > 0
        => stepRank(steps[i]) <= stepRank(steps[j])

\* What the step just added to the trace of run r.
added(r) == Drop(run'[r].tr, Len(run[r].tr))

\* C27: a fallback phase that succeeds makes its createAppTables call, then
\* its addColumnToTable calls, then its insertRow calls, then exactly one
\* updateAppHtml call, whose markup is the document's with the placeholders
\* substituted, and emits 'complete' only after that call.
C27_FallbackStepsInOrder ==
    [][\A r \in Runs :
         run[r].kind = "edit" /\ run[r].pc \in {"full_wait", "applying"}
         /\ run'[r].pc \in {"complete", "done"}
         => /\ inOrder(added(r))
            /\ Cardinality({i \in DOMAIN added(r) :
                              isCall(added(r)[i], {"updateAppHtml"})}) = 1
            /\ \A i \in DOMAIN added(r) :
                  isCall(added(r)[i], {"updateAppHtml"})
                  => /\ ~includes(added(r)[i].html, APP_ID_PLACEHOLDER)
                     /\ \A resp \in EditResponses :
                           /\ ~resp.failed /\ resp.blockType = "text"
                           /\ ~editAppApply(db, resp, run[r].appId).threw
                           /\ editAppApply(db, resp, run[r].appId).tr = SelectSeq(added(r), LAMBDA e : e.k = "call")
                           => added(r)[i].html
                                = replaceAll(resp.text.data.html, APP_ID_PLACEHOLDER,
                                             run[r].appId)
            /\ \A i \in DOMAIN run'[r].tr :
                  isEvent(run'[r].tr[i], "complete")
                  => \E j \in 1..(i - 1) : isCall(run'[r].tr[j], {"updateAppHtml"})]_vars

\* A fallback that created a table, added a column, inserted a seed row
\* and persisted the markup, and then reported 'complete'.
C27_Witness ==
    \E r \in Runs :
        /\ run[r].kind = "edit" /\ run[r].pc = "done" /\ run[r].consumer
        /\ countRequests(run[r].tr, "full") = 1
        /\ \A k \in 1..5 : \E i \in DOMAIN run[r].tr : stepRank(run[r].tr[i]) = k

truncatedUnrepaired == "Response was truncated (max_tokens) and could not be repaired"

unfinishedEdit(r) == run[r].kind = "edit" /\ run[r].pc \notin Finished

\* C29: when every awaited consumer call returns and every request to the
\* generative service is answered, every editApp run ends, completed or in
\* error; a run issues at most one fast request and at most one
\* full-regeneration request; a run whose truncated response could not be
\* repaired is in error, and a run that has ended does nothing more (what
\* follows in its place is a new request).
C29_EditTerminates ==
    /\ [](\A r \in Runs :
            run[r].kind = "edit"
            => /\ countRequests(run[r].tr, "fast") <= 1
               /\ countRequests(run[r].tr, "full") <= 1
               /\ run[r].msg = truncatedUnrepaired => run[r].pc = "error")
    /\ [][\A r \in Runs :
            run[r].kind = "edit" /\ run[r].pc \in {"done", "error"}
            => run'[r] = run[r] \/ nreq' = nreq + 1]_vars
    /\ \A r \in Runs : unfinishedEdit(r) ~> run[r].pc \in {"done", "error"}

\* An edit ended in error by a truncated full response that repair could not
\* recover, after one fast and one full-regeneration request.
C29_Witness ==
    \E r \in Runs :
        /\ run[r].kind = "edit" /\ run[r].pc = "error"
        /\ run[r].msg = truncatedUnrepaired
        /\ countRequests(run[r].tr, "fast") = 1
        /\ countRequests(run[r].tr, "full") = 1

\* The fast response of run r parsed into a document whose patches list is
\* empty.
emptyPatchList(r) ==
    run[r].kind = "edit" /\ fastParsed(r) /\ fastPatches(r) = <<>>

\* The edit of run r was completed by the fast attempt with the markup it
\* read before the request, the placeholders substituted.
keptMarkup(r) ==
    /\ run[r].pc \in {"complete", "done"}
    /\ countRequests(run[r].tr, "full") = 0
    /\ \E i \in DOMAIN run[r].tr :
          /\ isCall(run[r].tr[i], {"updateAppHtml"})
          /\ run[r].tr[i].html = substituteAppId(run[r].html, run[r].appId)

\* The patches list of run r's fast response holds a patch whose search
\* text is empty, the entries before it being patches.
hasEmptySearch(r) ==
    /\ run[r].kind = "edit" /\ fastParsed(r)
    /\ \E i \in DOMAIN fastPatches(r) :
          /\ ~isNull(fastPatches(r)[i]) /\ fastPatches(r)[i].search = <<>>
          /\ \A j \in 1..(i - 1) : ~isNull(fastPatches(r)[j])

\* A list with an empty search text is not applicable.
emptySearchRefused(r) ==
    hasEmptySearch(r) =>
        /\ ~applyPatches(run[r].html, fastPatches(r)).applied
        /\ run[r].fast = "null"

\* C38 as stated: a fast response with an empty patches list leaves the
\* markup unchanged in applyPatches and completes the edit without a
\* fallback request, the persisted markup being the previous one; a patch
\* with an empty search text makes the list not applicable.
C38_EmptyPatchListCompletes ==
    \A r \in Runs :
        /\ emptyPatchList(r) =>
              /\ applyPatches(run[r].html, fastPatches(r)).applied
              /\ applyPatches(run[r].html, fastPatches(r)).html = run[r].html
              /\ keptMarkup(r)
        /\ emptySearchRefused(r)

(***************************************************************************)
(* Properties of the parsing pipeline (SpecParse)                          *)
(***************************************************************************)
parsed == out.stage = "parsed"

\* The response from its first opening brace, fences stripped: the text
\* extractJson looks for the last closing brace in.
body(text) ==
    Drop(stripCodeFences(trim(text)), indexOf(stripCodeFences(trim(text)), <<"{">>) - 1)

hasObject(text) == includes(stripCodeFences(trim(text)), <<"{">>)

\* The text stops inside a string literal.
endsInsideString(text) == scan(text, Len(text)).inString

\* The position of the quote that opens the literal the text stops in.
openQuote(text) ==
    CHOOSE i \in DOMAIN text :
        /\ ~scan(text, i - 1).inString /\ scan(text, i).inString
        /\ \A j \in (i + 1)..Len(text) : scan(text, j).inString

closers(s) == \A i \in DOMAIN s : s[i] \in {"}", "]"}

cutInsideLiteral ==
    parsed /\ out.wasTruncated /\ hasObject(raw) /\ endsInsideString(body(raw))

\* C11 as stated: a response with truncation signaled that stops inside an
\* unterminated string literal always fails with the repair-failure error.
C11_UnterminatedLiteralIsRepairFailure ==
    cutInsideLiteral =>
        /\ out.res.threw
        /\ out.res.msg = "Response was truncated (max_tokens) and could not be repaired"

\* C11 amended: such a response is never completed by closing the literal:
\* parseResponse fails, or the document it returns was parsed from a prefix
\* of the text that ends before the quote opening the literal, followed by
\* closing brackets and braces only.
C11_UnterminatedLiteralIsDropped ==
    cutInsideLiteral /\ ~out.res.threw =>
        /\ out.res.repairCalled
        /\ \E k \in 0..(openQuote(body(raw)) - 1) :
              /\ isPrefix(Take(body(raw), k), out.res.json)
              /\ closers(Drop(out.res.json, k))

C11_Witness ==
    /\ cutInsideLiteral /\ ~out.res.threw /\ out.res.repairCalled
    /\ out.before = <<>>

\* C12: when the raw response holds an opening brace but no closing brace
\* and truncation was signaled, parseResponse goes on to the Repairer
\* instead of failing at extraction.
C12_MissingClosingBraceProceedsToRepair ==
    parsed /\ out.wasTruncated /\ includes(raw, <<"{">>) /\ ~includes(raw, <<"}">>)
        => out.res.repairCalled

\* extractJson returns a text that JSON.parse rejects.
parseFails == ~extractJson(raw).threw /\ ~JSONparse(extractJson(raw).text).ok

\* C13: the Repairer is invoked only when parsing the extracted text fails
\* and truncation was signaled (never on an extraction failure, on a parse
\* failure without the signal or on a parse success), and a parse failure
\* without the signal is fatal.
C13_RepairOnlyOnTruncatedParseFailure ==
    parsed =>
        /\ out.res.repairCalled => parseFails /\ out.wasTruncated
        /\ parseFails /\ ~out.wasTruncated =>
              /\ out.res.threw
              /\ out.res.msg = "Failed to parse LLM response as JSON"

C13_Witness == parsed /\ out.res.repairCalled /\ parseFails /\ out.wasTruncated

\* A parsed value is a well-formed document: an object with a list tables
\* of objects that have a non-empty string name and a list columns, and a
\* string html.
wellFormedTable(table) ==
    /\ table.t = "object"
    /\ member(table, NAME).t = "string" /\ member(table, NAME).s # <<>>
    /\ member(table, COLUMNS).t = "array"

wellFormed(v) ==
    /\ v.t = "object"
    /\ member(v, TABLES).t = "array"
    /\ \A i \in DOMAIN member(v, TABLES).kids :
          wellFormedTable(member(v, TABLES).kids[i].v)
    /\ member(v, HTML).t = "string"

wellFormedDocument(text) == JSONparse(text).ok /\ wellFormed(JSONparse(text).v)

\* C14: the text of a well-formed document round-trips: extraction, JSON
\* parsing and validation return a document with the tables and the markup
\* of the text, and extractJson applied to its own output returns it
\* unchanged.
C14_WellFormedDocumentRoundTrips ==
    parsed /\ raw = out.doc /\ wellFormedDocument(raw) =>
        /\ ~out.res.threw
        /\ member(out.res.data, TABLES) = member(JSONparse(raw).v, TABLES)
        /\ member(out.res.data, HTML) = member(JSONparse(raw).v, HTML)
        /\ extractJson(extractJson(raw).text) = extractJson(raw)

C14_Witness ==
    /\ parsed /\ raw = out.doc /\ wellFormedDocument(raw)
    /\ ~out.res.threw
    /\ member(out.res.data, TABLES).kids # <<>>
    /\ includes(member(out.res.data, HTML).s, <<"}">>)

\* A whole response made of a well-formed document and what was written
\* around it, parsed.
wrappedDocument == parsed /\ ~out.wasTruncated /\ wellFormedDocument(out.doc)

\* C15 as stated: a valid document text wrapped in optional code fences and
\* preceded and followed by any prose is accepted, and extractJson returns
\* the document text up to surrounding white space.
C15_AnyWrappingIsStripped ==
    wrappedDocument =>
        /\ ~out.res.threw
        /\ trim(extractJson(raw).text) = trim(out.doc)

\* C15 amended: the same, for prose before the document that holds no
\* opening brace and prose after it that holds no closing brace.
C15_BraceFreeWrappingIsStripped ==
    wrappedDocument /\ ~includes(out.before, <<"{">>) /\ ~includes(out.after, <<"}">>) =>
        /\ ~out.res.threw
        /\ trim(extractJson(raw).text) = trim(out.doc)

C15_Witness ==
    /\ wrappedDocument /\ ~out.res.threw
    /\ out.before # <<>> /\ ~includes(out.before, <<"{">>)
    /\ out.after # <<>> /\ ~includes(out.after, <<"}">>)
    /\ includes(raw, FENCE \o <<"j">>) /\ startsWithAt(raw, FENCE, Len(raw) - Len(out.after) - 3)
    /\ extractJson(raw).text = out.doc

\* What JSON.parse returned in parseResponse, from the extracted text or
\* from the text the Repairer made of it.
parseSucceeded ==
    /\ ~extractJson(raw).threw
    /\ \/ JSONparse(extractJson(raw).text).ok
       \/ out.wasTruncated /\ ~repairTruncatedJson(extractJson(raw).text).threw

parsedValue ==
    IF JSONparse(extractJson(raw).text).ok THEN JSONparse(extractJson(raw).text).v
    ELSE JSONparse(repairTruncatedJson(extractJson(raw).text).text).v

ValidationErrors ==
    { "Invalid response structure: missing or invalid 'tables' array",
      "Invalid response structure: missing or invalid 'html' string",
      "Invalid table definition" }

\* C16: after a successful parse, with or without repair, parseResponse
\* returns a document if and only if tables is a list, every element of it
\* has a non-empty name and a list columns, and html is a string; every
\* violation ends in a validation error and nothing is returned.
C16_ValidationDecidesDocument ==
    parsed /\ parseSucceeded =>
        /\ ~out.res.threw <=> wellFormed(parsedValue)
        /\ ~out.res.threw => out.res.data = parsedValue
        /\ out.res.threw => out.res.msg \in ValidationErrors /\ out.res.json = <<>>

(***************************************************************************)
(* Properties of insertSeedData (SpecSeed)                                 *)
(***************************************************************************)
\* The (table, row) pairs of the rows of the list-valued entries, in order.
RECURSIVE seedRows(_)
seedRows(seedData) ==
    IF seedData = <<>> THEN <<>>
    ELSE (IF Head(seedData).isArray
          THEN [i \in DOMAIN Head(seedData).rows |->
                   <<Head(seedData).table, Head(seedData).rows[i]>>]
          ELSE <<>>) \o seedRows(Tail(seedData))

insertCalls(tr, tableName, failed) ==
    Cardinality({i \in DOMAIN tr : tr[i].table = tableName /\ tr[i].failed = failed})

\* C17: insertSeedData never throws; it calls insertRow exactly once for
\* every row of every entry whose value is a list, in order, whatever
\* failed before; for each such table the rows inserted and the rows
\* failed add up to the rows given, and the inserted ones are in storage.
C17_SeedDataIsBestEffort ==
    out.done =>
        /\ ~out.threw
        /\ \A i \in DOMAIN out.tr : isCall(out.tr[i], {"insertRow"})
        /\ [i \in DOMAIN out.tr |-> <<out.tr[i].table, out.tr[i].row>>] = seedRows(raw)
        /\ \A i \in DOMAIN raw :
              raw[i].isArray =>
                 /\ insertCalls(out.tr, raw[i].table, FALSE)
                       + insertCalls(out.tr, raw[i].table, TRUE) = Len(raw[i].rows)
                 /\ getFullTableName(seedAppId, raw[i].table) \in DOMAIN db.rows =>
                       Len(db.rows[getFullTableName(seedAppId, raw[i].table)])
                          = insertCalls(out.tr, raw[i].table, FALSE)

\* A failing table, then a failing row, then a row that is inserted.
C17_Witness ==
    /\ out.done /\ Len(raw) = 2
    /\ raw[1] = Seed(tabU, <<rowC>>) /\ raw[2] = Seed(tabT, <<rowZ, rowC>>)
    /\ Len(out.tr) = 3
    /\ out.tr[1].failed /\ out.tr[2].failed /\ ~out.tr[3].failed

(***************************************************************************)
(* Properties of the edit endpoints (SpecEndpoint)                         *)
(***************************************************************************)
\* What the pipeline did: the requests issued to the generative service and
\* the storage calls made, in order.
pipelineOf(tr) == SelectSeq(tr, LAMBDA e : e.k # "event")

\* editApp on the request raw without a consumer: no event is awaited, so
\* the run goes from one response to the next.
afterFast(b) ==
    IF b.run.pc = "fast_wait" THEN editOnFastResponse(b.run, b.db, raw.fast) ELSE b

afterFull(f) ==
    IF f.run.pc = "full_wait" THEN editOnFullResponse(f.run, f.db, raw.full) ELSE f

withoutConsumer == afterFull(afterFast(editBegin(servedDb, raw.appId, FALSE)))

sameOutcome(rr, d, ref) ==
    /\ pipelineOf(rr.tr) = pipelineOf(ref.run.tr)
    /\ rr.pc = ref.run.pc
    /\ rr.msg = ref.run.msg
    /\ d = ref.db

\* C21: the consumer does not affect the pipeline: whoever the caller is
\* (no consumer, a consumer that handles every event, a consumer that fails
\* on some event), an editApp that has returned or thrown has issued the
\* requests and made the storage calls of the run without a consumer, and
\* ended as that run ends, with the same database.
C21_ConsumerDoesNotAffectPipeline ==
    run[1].pc \in {"done", "error"} => sameOutcome(run[1], db, withoutConsumer)

\* What the caller of the streaming endpoint receives: every event the
\* consumer was given, then what the endpoint's catch wrote.
sseStream == SelectSeq(run[1].tr, LAMBDA e : e.k = "event") \o out

\* C22: for an edit request of the streaming endpoint that ended in Error,
\* exactly one error message with the text of the failure has reached the
\* caller once the endpoint has handled the error.
C22_ExactlyOneErrorMessage ==
    raw.caller = "sse" /\ run[1].pc = "error" /\ out # <<>>
    => Cardinality({i \in DOMAIN sseStream :
                      sseStream[i] = Event("error", run[1].msg)}) = 1

isTerminalEvent(e) == isEvent(e, "complete") \/ isEvent(e, "error")

\* C28: Complete and Error are terminal and exclusive: no editApp run has
\* emitted both 'complete' and 'error'; a terminal event is the last thing
\* a run does (no event, request or storage call follows it); a run with a
\* consumer that has returned has emitted 'complete' and one that has
\* thrown has emitted 'error'.
C28_TerminalAndExclusive ==
    \A r \in Runs :
        run[r].kind = "edit" =>
            /\ ~(\E i, j \in DOMAIN run[r].tr :
                    isEvent(run[r].tr[i], "complete") /\ isEvent(run[r].tr[j], "error"))
            /\ \A i \in DOMAIN run[r].tr :
                  isTerminalEvent(run[r].tr[i]) => i = Len(run[r].tr)
            /\ run[r].consumer /\ run[r].pc = "done"
                  => isEvent(run[r].tr[Len(run[r].tr)], "complete")
            /\ run[r].consumer /\ run[r].pc = "error"
                  => isEvent(run[r].tr[Len(run[r].tr)], "error")

\* The events the consumer of a trace was given, in order.
progressEvents(tr) == SelectSeq(tr, LAMBDA e : e.k = "event")

\* The 'applying' event at place i of a trace follows the request for the
\* full regeneration with no storage call in between.
appliesFullResponse(tr, i) ==
    \E j \in 1..(i - 1) :
        /\ isRequest(tr[j], "full")
        /\ \A k \in (j + 1)..(i - 1) : tr[k].k # "call"

\* C39: the consumer of an edit of an existing application is given one
\* 'analyzing' event, first; then 'generating' events, at least one before
\* anything else; 'applying' at most once, after the answer to the
\* full-regeneration request and before any storage call of the fallback
\* phase, with no 'generating' after it and never when the fast attempt
\* succeeded; and a terminal event last, once the edit has ended.
C39_EventsInProtocolOrder ==
    \A r \in Runs :
        run[r].kind = "edit" /\ run[r].consumer /\ getApp(run[r].start, run[r].appId) =>
            LET tr == run[r].tr
                ev == progressEvents(tr)
            IN /\ run[r].pc # "idle" => ev # <<>>
               /\ \A i \in DOMAIN ev : isEvent(ev[i], "analyzing") <=> i = 1
               /\ Len(ev) >= 2 => isEvent(ev[2], "generating")
               /\ \A i, j \in DOMAIN ev :
                     i < j /\ isEvent(ev[i], "applying")
                     => ~isEvent(ev[j], "generating") /\ ~isEvent(ev[j], "applying")
               /\ \A i \in DOMAIN tr :
                     isEvent(tr[i], "applying")
                     => /\ appliesFullResponse(tr, i)
                        /\ run[r].pc # "full_wait"
                        /\ run[r].fast # "true"
               /\ \A i \in DOMAIN ev : isTerminalEvent(ev[i]) => i = Len(ev)
               /\ run[r].pc \in {"done", "error"}
                     => Len(ev) >= 3 /\ isTerminalEvent(ev[Len(ev)])

\* C35: the SchemaRegistry never lists what storage lacks: for every
\* (application, table) entry of the registry the storage table exists and
\* has every column the entry lists.
C35_RegistryWithinStorage ==
    \A key \in DOMAIN db.app_schemas :
        /\ fullTableName(key[1], key[2]) \in DOMAIN db.tables
        /\ \A i \in DOMAIN db.app_schemas[key] :
              db.app_schemas[key][i].name
                 \in columnNames(db.tables[fullTableName(key[1], key[2])])

\* The run edits an application that had no record when it began.
editsMissingApp(r) == run[r].kind = "edit" /\ ~getApp(run[r].start, run[r].appId)

\* C37: editApp on an identifier without an application record fails with
\* 'App not found': it is in error, the 'error' event is the only event its
\* consumer received, and it has issued no request and made no storage
\* write.
C37_MissingAppFailsAtOnce ==
    \A r \in Runs :
        editsMissingApp(r)
        => /\ run[r].pc = "error" /\ run[r].msg = "App not found"
           /\ run[r].tr = IF run[r].consumer THEN <<Event("error", "App not found")>>
                          ELSE <<>>
           /\ db = run[r].start

\* With applications in storage, an edit of an identifier that has no
\* record failed, and its consumer received the 'error' event.
C37_Witness ==
    \E r \in Runs :
        /\ editsMissingApp(r) /\ run[r].consumer /\ run[r].pc = "error"
        /\ DOMAIN run[r].start.apps # {}

\* The storage calls of the run that write the markup.
markupWrites(tr) == SelectSeq(tr, LAMBDA e : isCall(e, {"updateAppHtml"}))

\* editAppFast applied its patches and called updateAppHtml.
fastPersisted(r) ==
    /\ run[r].kind = "edit" /\ run[r].fast = "true"
    /\ markupWrites(run[r].fastTr) # <<>>

\* C34: when the fast phase has persisted its result, the same edit request
\* issues no full-regeneration request and does not overwrite the patched
\* markup: the fast phase's write is the only markup write of the run.
C34_PersistedFastResultIsFinal ==
    \A r \in Runs :
        fastPersisted(r)
        => /\ countRequests(run[r].tr, "full") = 0
           /\ markupWrites(run[r].tr) = markupWrites(run[r].fastTr)

\* The run is suspended at an awaited call of the progress consumer, before
\* its terminal event.
awaitsConsumer(r) ==
    run[r].kind = "edit" /\ run[r].pc \in {"analyzing", "generating", "fallback", "applying"}

\* C32: editApp never blocks on the progress consumer: whether or not the
\* consumer finishes handling an event, the run goes on to its terminal
\* state, completed or in error.
C32_NeverBlocksOnConsumer ==
    \A r \in Runs : awaitsConsumer(r) ~> run[r].pc \in {"complete", "done", "error"}

(***************************************************************************)
(* Properties of concurrent edits (SpecConcurrent)                         *)
(***************************************************************************)
\* The markup of the last updateAppHtml call of a trace.
RECURSIVE lastUpdate(_)
lastUpdate(tr) ==
    IF tr = <<>> THEN <<>>
    ELSE IF isCall(tr[Len(tr)], {"updateAppHtml"}) THEN tr[Len(tr)].html
    ELSE lastUpdate(Take(tr, Len(tr) - 1))

\* The markup a run obtains from its fast response and the markup it read.
patchedByRun(rr) ==
    substituteAppId(patchedUpTo(rr.html, rr.fastResp.text.data.patches,
                                Len(rr.fastResp.text.data.patches)),
                    rr.appId)

\* C25: nothing serialises two edits of one application.  Every edit that
\* completes persists the markup of its own updateAppHtml call, whatever
\* another edit has persisted since it read the markup; for an edit
\* completed by the fast attempt that markup is its patches applied to the
\* markup the run read when it started.  So of two edits that read the same
\* markup the later writer overwrites the earlier one (C25_Witness).
C25_EditsAreNotSerialised ==
    [][\A r \in Runs :
         run[r].kind = "edit" /\ run[r].pc \in {"fast_wait", "full_wait"}
         /\ run'[r].pc = "done"
         => /\ db'.apps[run[r].appId] = lastUpdate(run'[r].tr)
            /\ run[r].pc = "fast_wait" => lastUpdate(run'[r].tr) = patchedByRun(run'[r])]_vars

\* Two edits read the same markup and both completed by their patches; the
\* first changed the markup, and the markup persisted in the end is the
\* second one's patches applied to the markup both had read: it is neither
\* the first edit's markup nor the second's patches applied to it.
C25_Witness ==
    /\ run[1].pc = "done" /\ run[2].pc = "done"
    /\ run[1].fast = "true" /\ run[2].fast = "true"
    /\ run[1].html = run[2].html
    /\ lastUpdate(run[1].tr) # run[1].html
    /\ db.apps[seedAppId] = patchedByRun(run[2])
    /\ db.apps[seedAppId] # lastUpdate(run[1].tr)
    /\ applyPatches(lastUpdate(run[1].tr), run[2].fastResp.text.data.patches).applied
    /\ db.apps[seedAppId]
         # applyPatches(lastUpdate(run[1].tr), run[2].fastResp.text.data.patches).html

storageCalls(tr) == SelectSeq(tr, LAMBDA e : e.k = "call")

\* The storage calls of the phase the run is in: those made since its last
\* request to the generative service.
RECURSIVE phaseWrites(_)
phaseWrites(tr) ==
    IF tr = <<>> THEN <<>>
    ELSE IF tr[Len(tr)].k = "request" THEN <<>>
    ELSE IF tr[Len(tr)].k = "call"
    THEN Append(phaseWrites(Take(tr, Len(tr) - 1)), tr[Len(tr)])
    ELSE phaseWrites(Take(tr, Len(tr) - 1))

\* C36: the storage writes of one phase of one run are made with no
\* suspension point among them: the step in which a run makes storage
\* calls (a step that serves no new request) is the first of its phase to
\* make any, and no other run does anything in that step, so that between
\* the first and the last write of a phase no write of another request is
\* made.
C36_PhaseWritesAreNotInterleaved ==
    [][\A r \in Runs :
         nreq' = nreq /\ storageCalls(run'[r].tr) # storageCalls(run[r].tr)
         => /\ phaseWrites(run[r].tr) = <<>>
            /\ \A q \in Runs \ {r} : run'[q] = run[q]]_vars

\* Two edits in flight at once have each made the writes of a fast phase,
\* several calls each.
C36_Witness ==
    /\ \A r \in Runs : run[r].kind = "edit" /\ Len(phaseWrites(run[r].tr)) >= 2
    /\ \E r \in Runs : countRequests(run[r].tr, "full") = 1

(***************************************************************************)
(* Properties of the interrupted reconciliation (SpecCrash)                *)
(***************************************************************************)
uninterrupted == addNewColumns(servedDb, <<>>, seedAppId, raw)

\* The column is in the storage table and in the SchemaRegistry entry.
inStorageAndRegistry(d, c) ==
    /\ tableState(d, seedAppId, c.table).stored
    /\ c.col.name \in columnNames(tableState(d, seedAppId, c.table).columns)
    /\ c.col.name \in columnNames(tableState(d, seedAppId, c.table).schema)

\* C26: when the addition of new columns has stopped at some point and the
\* same reconciliation has then run again to its end, it has raised no
\* error, and every column of newColumns that is in the storage table and
\* in the SchemaRegistry entry after an uninterrupted run is in both now.
C26_RerunAfterCrashIsSafe ==
    out.stage = "rerun"
    => /\ ~out.threw
       /\ \A i \in DOMAIN columnsToAdd(raw) :
             inStorageAndRegistry(uninterrupted.db, columnsToAdd(raw)[i])
             => inStorageAndRegistry(db, columnsToAdd(raw)[i])

(***************************************************************************)
(* Properties of the row API (SpecCrud)                                    *)
(***************************************************************************)
\* The request names a table of the registry and, for an update, a row.
addressesRow ==
    /\ resolveTable(crudDb, raw.appId, raw.table)
    /\ raw.method = "PUT" => getRow(crudDb, getFullTableName(raw.appId, raw.table), raw.id)

\* The body holds a string for an INTEGER or a BOOLEAN column, or a string
\* or a boolean for a REAL column.
wrongType ==
    \E i \in DOMAIN raw.body.cells :
        \E j \in DOMAIN getAppSchema(crudDb, raw.appId, raw.table) :
            LET col == getAppSchema(crudDb, raw.appId, raw.table)[j]
                v == raw.body.cells[i][2]
            IN /\ raw.body.cells[i][1] = col.name
               /\ \/ col.type \in {"INTEGER", "integer", "BOOLEAN", "boolean"} /\ v = "string"
                  \/ col.type \in {"REAL", "real"} /\ v \in {"string", "boolean"}

\* C33: every row write through the row API is checked against the stored
\* schema: a create or an update whose body holds a value of the wrong type
\* for an INTEGER, BOOLEAN or REAL column is answered with status 400 and
\* writes nothing, and no key that is not a column of the registry entry is
\* ever written.
C33_RowWritesAreValidated ==
    out.done /\ addressesRow
    => /\ wrongType => out.status = 400 /\ db = crudDb
       /\ \A i \in DOMAIN db.rows[getFullTableName(raw.appId, raw.table)] :
             rowKeys(db.rows[getFullTableName(raw.appId, raw.table)][i])
                \subseteq columnNames(getAppSchema(crudDb, raw.appId, raw.table))

====
